---- MODULE Spec2Model ----
(***************************************************************************)
(* A model of the CVE exploit-prediction repository:                       *)
(*   - PublicAPIBatchProcessor (src/project/batch.py): the rate-limited,   *)
(*     concurrent batch fetcher, one asyncio task per parameter tuple;     *)
(*   - the inference API (src/project/app/main.py): /health and /predict;  *)
(*   - the Streamlit front end (src/frontend/app.py): payload validation   *)
(*     and the two ways a payload is posted to /predict;                   *)
(*   - the ingestion pipelines: get_Dates (src/project/pdpipeline/         *)
(*     ingest.py) and ExtractCVE.extract (src/project/plpipeline/          *)
(*     extract.py).                                                        *)
(* Each subsystem has its own specification (SpecBatch, SpecApi, SpecUi,   *)
(* SpecDates, SpecExtract);                                                *)
(* the variables of the other subsystems stay at their initial values.     *)
(***************************************************************************)
EXTENDS Integers, Sequences, FiniteSets, TLC

VARIABLES
    \* ---- PublicAPIBatchProcessor ----
    cfg,                \* constructor arguments (batch.py:29-53)
    call,               \* arguments of process_dataframe (batch.py:207-217)
    last_request_time,  \* self.last_request_time
    now,                \* time.time(), in whole seconds
    pdpc,               \* position of process_dataframe
    param_values,       \* distinct tuples to query (batch.py:240)
    i,                  \* loop index of the batch loop (batch.py:252)
    batch_values,       \* tuples of the batch being gathered
    tpc,                \* position of each _make_request coroutine of the batch
    tparams,            \* params dict each coroutine was created with
    twake,              \* time each sleeping coroutine asked to be woken at
    attempts,           \* calls of the decorated function body per coroutine
    tresp,              \* APIResponse each finished coroutine returned
    reordered,          \* a coroutine finished before one created earlier
    batch_results,      \* what the last asyncio.run(_process_batch) returned
    all_results,        \* all_results of process_dataframe
    lastGet,            \* time session.get was last called, None before
    pauseUntil,         \* end of the time.sleep(1) between batches
    raised,             \* exception process_dataframe raised, if any
    gets,               \* params -> number of session.get calls made with them
    returned,           \* rows of the DataFrame process_dataframe returned
    \* ---- inference API ----
    modelFile,          \* what ./models/logistic_regression_model.pkl holds
    environment,        \* SETTINGS.ENVIRONMENT
    apiLog,             \* the requests served so far, each with its answer
    \* ---- Streamlit front end ----
    payload_text,       \* st.session_state.payload_text
    api_url,            \* DEFAULT_API_URL
    preprocessor,       \* whether load_encoder found the fitted preprocessor
    lastClick,          \* the click on a send button this rerun shows, if any
    \* ---- ingestion pipelines ----
    dates,              \* the last get_Dates call: its arguments and its result
    ex,                 \* ExtractCVE.extract: its arguments, position and locals
    proc,               \* process_cve_batches and merge_batch_results: arguments,
                        \* position, locals and the files of the data directories
    feat,               \* the feature merge of pdpipeline/process.py main
    bq,                 \* send_to_bigQuery: its rows, position and uploads
    rendered            \* what the front end last rendered for a response

batchVars == <<cfg, call, last_request_time, now, pdpc, param_values, i,
               batch_values, tpc, tparams, twake, attempts, tresp,
               reordered, batch_results, all_results, lastGet,
               pauseUntil, raised, gets, returned>>

apiVars == <<modelFile, environment, apiLog>>

uiVars == <<payload_text, api_url, preprocessor, lastClick>>

pipeVars == <<dates, ex, proc, feat, bq, rendered>>

vars == <<batchVars, apiVars, uiVars, pipeVars>>

(***************************************************************************)
(* Python values                                                           *)
(***************************************************************************)
\* Optional[T]: None is the empty tuple, a present value x is <<x>>.
None == <<>>
Some(x) == <<x>>

Min(a, b) == IF a <= b THEN a ELSE b

Range(s) == {s[k] : k \in 1..Len(s)}

\* s[from:to] of Python on a TLA+ sequence (0-based bounds, to exclusive).
Slice(s, from, to) == SubSeq(s, from + 1, Min(to, Len(s)))

(***************************************************************************)
(* Bounds of the model                                                     *)
(***************************************************************************)
\* time.time() when process_dataframe is called: any value at least
\* request_interval, as the epoch clock is.
StartTime == 10
\* seconds the clock may advance during one process_dataframe call
MaxElapsed == 3
\* requests the API serves in one behaviour
MaxRequests == 2

(***************************************************************************)
(* PublicAPIBatchProcessor: inputs                                         *)
(***************************************************************************)
Row(d, s) == [pubStartDate |-> d, startIndex |-> s]

DfColumns == {"pubStartDate", "startIndex"}

\* no row
DfEmpty == [columns |-> DfColumns, rows |-> <<>>]

\* a repeated row: 1 distinct pubStartDate, 2 distinct pairs
DfPages ==
    [columns |-> DfColumns,
     rows |-> <<Row("jan", "0"), Row("jan", "2000"), Row("jan", "0")>>]

\* 2 distinct pubStartDate, 3 distinct pairs, a repeated row in between
DfMonths ==
    [columns |-> DfColumns,
     rows |-> <<Row("jan", "0"), Row("feb", "0"), Row("jan", "0"),
                Row("jan", "2000")>>]

Call(df, names, batch_size, additional_params) ==
    [df |-> df, column_names |-> names, param_names |-> names,
     batch_size |-> batch_size, additional_params |-> additional_params]

\* The calls of process_dataframe that are explored. param_names is
\* column_names, as in the callers (dataset.py:110-114,
\* pdpipeline/ingest.py:84-88).
Calls ==
    { Call(DfEmpty, <<"pubStartDate">>, 100, None),
      Call(DfPages, <<"pubStartDate", "startIndex">>, 1,
           Some([resultsPerPage |-> "2000"])),
      Call(DfPages, <<"pubStartDate", "cveId">>, 100, None),
      Call(DfPages, <<"pubStartDate", "vendor", "cveId">>, 100, None),
      Call(DfMonths, <<"pubStartDate">>, 100, Some([resultsPerPage |-> "2000"])),
      Call(DfMonths, <<"pubStartDate", "startIndex">>, 100, None) }

Configs ==
    [ max_concurrent_requests : {1, 2},
      rate_limit_per_minute : {30, 60},
      retries : {1, 3} ]

\* What one HTTP GET can end in: a response (status, body), the session's
\* total timeout, a connection-level aiohttp.ClientError, or another exception.
\* A response whose body is JSON carries a JSON object: the page of results
\* the NVD API answers with ("page"), or an object that has a key named
\* success ("flagged"), as APIs that report their own outcome send.
Replies ==
    { [kind |-> "response", status |-> 200, json |-> TRUE, body |-> "page"],
      [kind |-> "response", status |-> 200, json |-> TRUE, body |-> "flagged"],
      [kind |-> "response", status |-> 200, json |-> FALSE, body |-> "text"],
      [kind |-> "response", status |-> 404, json |-> FALSE, body |-> "text"],
      [kind |-> "timeout", status |-> 0, json |-> FALSE, body |-> "text"],
      [kind |-> "client_error", status |-> 0, json |-> FALSE, body |-> "text"],
      [kind |-> "exception", status |-> 0, json |-> FALSE, body |-> "text"] }

(***************************************************************************)
(* PublicAPIBatchProcessor: pure parts                                     *)
(***************************************************************************)
\* batch.py:52
request_interval == 60 \div cfg.rate_limit_per_minute

\* batch.py:64: max_tries of the backoff decorator
max_tries == 3

\* batch.py:63: the exceptions the backoff decorator retries on
RetryOn == {"ClientError", "TimeoutError"}

\* The last absent name instead of the first.
MissingColumnLast(df, column_names) ==
    LET bad == {k \in 1..Len(column_names) : column_names[k] \notin df.columns}
    IN  IF bad = {} THEN None
        ELSE Some(column_names[CHOOSE k \in bad : \A m \in bad : k >= m])

\* batch.py:235-237: the first name of column_names that df lacks, or None
MissingColumn(df, column_names) ==
    LET bad == {k \in 1..Len(column_names) : column_names[k] \notin df.columns}
    IN  IF bad = {} THEN None
        ELSE Some(column_names[CHOOSE k \in bad : \A m \in bad : k <= m])

\* df[column_names].values.tolist(): each row as the tuple of its selected cells
Project(df, column_names) ==
    [r \in 1..Len(df.rows) |->
        [k \in 1..Len(column_names) |-> df.rows[r][column_names[k]]]]

\* DataFrame.drop_duplicates(): keeps the first occurrence of every row
RECURSIVE DropDuplicatesFrom(_, _)
DropDuplicatesFrom(seen, rest) ==
    IF rest = <<>> THEN seen
    ELSE IF Head(rest) \in Range(seen) THEN DropDuplicatesFrom(seen, Tail(rest))
    ELSE DropDuplicatesFrom(Append(seen, Head(rest)), Tail(rest))

\* Every row kept, repeated or not.
DropDuplicatesNone(tuples) == tuples

DropDuplicates(tuples) == DropDuplicatesFrom(<<>>, tuples)

\* The batch size asked for, whatever the concurrency limit.
optimal_batch_size_uncapped == call.batch_size

\* batch.py:246
optimal_batch_size == Min(call.batch_size, cfg.max_concurrent_requests * 2)

\* batch.py:161-165: the params dict of one tuple. A later name of param_names
\* overwrites an earlier equal one; additional_params overwrite both.
MakeParams(values) ==
    LET names == {call.param_names[k] : k \in 1..Len(values)}
        base == [n \in names |->
                    values[CHOOSE k \in 1..Len(values) :
                              /\ call.param_names[k] = n
                              /\ \A m \in 1..Len(values) :
                                    call.param_names[m] = n => m <= k]]
        ap == call.additional_params
    IN  IF ap # None /\ DOMAIN ap[1] # {} THEN ap[1] @@ base ELSE base

APIResponse(success, data, error, query_params, status_code) ==
    [success |-> success, data |-> data, error |-> error,
     query_params |-> query_params, status_code |-> status_code]

\* An error string: its fixed text and, for f"HTTP Error {status}: ...", the
\* status formatted into it.
ErrorText(text, status) == [text |-> text, status |-> status]

\* The body the server sends for params (an echo of the query, enough to tell
\* the answers of different queries apart).
JsonBody(params) == [totalResults |-> "1", query |-> params]

\* batch.py:99: what response.json() gives for the reply to a GET with params
ResponseJson(reply, params) ==
    IF reply.body = "flagged" THEN [success |-> FALSE, totalResults |-> "0"]
    ELSE JsonBody(params)

\* _make_request without its last except clause: an exception that is neither
\* a timeout nor a client error leaves the function.
MakeRequestBodyUncaught(params, reply) ==
    IF reply.kind = "response" THEN
        IF reply.status >= 200 /\ reply.status < 300 THEN
            IF reply.json THEN
                [kind |-> "return", exc |-> None,
                 resp |-> APIResponse(TRUE, Some(ResponseJson(reply, params)), None,
                                      Some(params), Some(reply.status))]
            ELSE \* response.json() raises ContentTypeError, a ClientError
                [kind |-> "return", exc |-> None,
                 resp |-> APIResponse(FALSE, None, Some(ErrorText("Client error: content type", None)),
                                      Some(params), None)]
        ELSE
            [kind |-> "return", exc |-> None,
             resp |-> APIResponse(FALSE, None,
                                  Some(ErrorText("HTTP Error", Some(reply.status))),
                                  Some(params), Some(reply.status))]
    ELSE IF reply.kind = "timeout" THEN
        [kind |-> "return", exc |-> None,
         resp |-> APIResponse(FALSE, None, Some(ErrorText("Request timed out", None)),
                              Some(params), None)]
    ELSE IF reply.kind = "client_error" THEN
        [kind |-> "return", exc |-> None,
         resp |-> APIResponse(FALSE, None, Some(ErrorText("Client error: connection", None)),
                              Some(params), None)]
    ELSE
        [kind |-> "raise", exc |-> Some("Exception"),
         resp |-> APIResponse(FALSE, None, None, Some(params), None)]

\* _make_request that takes every status from 200 on for a success.
MakeRequestBodyAnyStatus(params, reply) ==
    IF reply.kind = "response" THEN
        IF reply.status >= 200 THEN
            IF reply.json \/ reply.status >= 300 THEN
                [kind |-> "return", exc |-> None,
                 resp |-> APIResponse(TRUE, Some(ResponseJson(reply, params)), None,
                                      Some(params), Some(reply.status))]
            ELSE \* response.json() raises ContentTypeError, a ClientError
                [kind |-> "return", exc |-> None,
                 resp |-> APIResponse(FALSE, None, Some(ErrorText("Client error: content type", None)),
                                      Some(params), None)]
        ELSE
            [kind |-> "return", exc |-> None,
             resp |-> APIResponse(FALSE, None,
                                  Some(ErrorText("HTTP Error", Some(reply.status))),
                                  Some(params), Some(reply.status))]
    ELSE IF reply.kind = "timeout" THEN
        [kind |-> "return", exc |-> None,
         resp |-> APIResponse(FALSE, None, Some(ErrorText("Request timed out", None)),
                              Some(params), None)]
    ELSE IF reply.kind = "client_error" THEN
        [kind |-> "return", exc |-> None,
         resp |-> APIResponse(FALSE, None, Some(ErrorText("Client error: connection", None)),
                              Some(params), None)]
    ELSE
        [kind |-> "return", exc |-> None,
         resp |-> APIResponse(FALSE, None, Some(ErrorText("Unexpected error", None)),
                              Some(params), None)]

\* batch.py:86-130: the body of _make_request from the GET on, for the way the
\* GET ends. kind "return" carries the APIResponse, kind "raise" the exception
\* that leaves the function body.
MakeRequestBody(params, reply) ==
    IF reply.kind = "response" THEN
        IF reply.status >= 200 /\ reply.status < 300 THEN
            IF reply.json THEN
                [kind |-> "return", exc |-> None,
                 resp |-> APIResponse(TRUE, Some(ResponseJson(reply, params)), None,
                                      Some(params), Some(reply.status))]
            ELSE \* response.json() raises ContentTypeError, a ClientError
                [kind |-> "return", exc |-> None,
                 resp |-> APIResponse(FALSE, None, Some(ErrorText("Client error: content type", None)),
                                      Some(params), None)]
        ELSE
            [kind |-> "return", exc |-> None,
             resp |-> APIResponse(FALSE, None,
                                  Some(ErrorText("HTTP Error", Some(reply.status))),
                                  Some(params), Some(reply.status))]
    ELSE IF reply.kind = "timeout" THEN
        [kind |-> "return", exc |-> None,
         resp |-> APIResponse(FALSE, None, Some(ErrorText("Request timed out", None)),
                              Some(params), None)]
    ELSE IF reply.kind = "client_error" THEN
        [kind |-> "return", exc |-> None,
         resp |-> APIResponse(FALSE, None, Some(ErrorText("Client error: connection", None)),
                              Some(params), None)]
    ELSE
        [kind |-> "return", exc |-> None,
         resp |-> APIResponse(FALSE, None, Some(ErrorText("Unexpected error", None)),
                              Some(params), None)]

\* batch.py:95: one more session.get call made with params
Counted(counts, params) ==
    [p \in DOMAIN counts \cup {params} |->
        IF p = params
        THEN (IF p \in DOMAIN counts THEN counts[p] ELSE 0) + 1
        ELSE counts[p]]

\* batch.py:196: TCPConnector(limit=max_concurrent_requests) hands out at most
\* that many connections at a time; a request beyond it waits for a free one.
InFlight == Cardinality({t \in DOMAIN tpc : tpc[t] = "inflight"})

\* A connector created without the limit never makes a request wait.
ConnectorUnlimited == TRUE

ConnectorHasSlot == InFlight < cfg.max_concurrent_requests

\* Results collected last-created first instead of in the order given.
GatherResultsReversed == [t \in DOMAIN tresp |-> tresp[Len(tresp) + 1 - t][1]]

\* asyncio.gather returns the results in the order of the awaitables given.
GatherResults == [t \in DOMAIN tresp |-> tresp[t][1]]

\* dict.update: the keys of e are set in d, those d already has are overwritten
DictUpdate(d, e) ==
    [k \in DOMAIN d \cup DOMAIN e |-> IF k \in DOMAIN e THEN e[k] ELSE d[k]]

\* batch.py:298-301: the query parameters named in param_names, each under
\* the column query_<name>
QueryColumns(response, param_names) ==
    IF response.query_params = None \/ DOMAIN response.query_params[1] = {}
    THEN <<>>
    ELSE LET qp == response.query_params[1]
             names == {n \in Range(param_names) : n \in DOMAIN qp}
         IN  [c \in {"query_" \o n : n \in names} |->
                 qp[CHOOSE n \in names : "query_" \o n = c]]

\* The query parameters under their own names.
QueryColumnsBare(response, param_names) ==
    IF response.query_params = None \/ DOMAIN response.query_params[1] = {}
    THEN <<>>
    ELSE LET qp == response.query_params[1]
         IN  [n \in {m \in Range(param_names) : m \in DOMAIN qp} |-> qp[n]]

\* batch.py:303-320: the status columns, then the top-level keys of the body
\* of a successful response or the error of a failed one, each assignment
\* overwriting a column of the same name set before. Every body of the model
\* is a JSON object.
ResultRow(queryColumns, response) ==
    LET status == DictUpdate(queryColumns,
                             [success |-> response.success,
                              status_code |-> response.status_code])
    IN  IF response.success THEN DictUpdate(status, response.data[1])
        ELSE DictUpdate(status, [error |-> response.error])

\* A handler that stores the query parameters without the query_ prefix.
default_result_handler_bare(results, param_names) ==
    [k \in 1..Len(results) |->
        ResultRow(QueryColumnsBare(results[k], param_names), results[k])]

\* batch.py:279-324 (and plpipeline/extract.py:180-213): one row per response
default_result_handler(results, param_names) ==
    [k \in 1..Len(results) |->
        ResultRow(QueryColumns(results[k], param_names), results[k])]
(***************************************************************************)
(* PublicAPIBatchProcessor: the state machine                              *)
(***************************************************************************)
BatchInit ==
    /\ cfg \in Configs
    /\ call \in Calls
    /\ last_request_time = 0
    /\ now = StartTime
    /\ pdpc = "call"
    /\ param_values = <<>>
    /\ i = 0
    /\ batch_values = <<>>
    /\ tpc = <<>>
    /\ tparams = <<>>
    /\ twake = <<>>
    /\ attempts = <<>>
    /\ tresp = <<>>
    /\ reordered = FALSE
    /\ batch_results = <<>>
    /\ all_results = <<>>
    /\ lastGet = None
    /\ pauseUntil = 0
    /\ raised = None
    /\ gets = <<>>
    /\ returned = <<>>

\* batch.py:234-249: validate the columns, extract the distinct tuples
ProcessDataframeStart ==
    /\ pdpc = "call"
    /\ LET missing == MissingColumn(call.df, call.column_names) IN
        IF missing # None THEN
            /\ pdpc' = "raised"
            /\ raised' = Some([type |-> "ValueError", name |-> missing[1]])
            /\ UNCHANGED <<param_values, all_results>>
        ELSE
            /\ pdpc' = "loop"
            /\ param_values' = DropDuplicates(Project(call.df, call.column_names))
            /\ all_results' = <<>>
            /\ UNCHANGED raised
    /\ i' = 0
    /\ gets' = <<>>
    /\ UNCHANGED <<apiVars, uiVars, pipeVars, returned, cfg, call, last_request_time, now, batch_values, tpc, tparams,
                   twake, attempts, tresp, reordered, batch_results,
                   lastGet, pauseUntil>>

\* batch.py:252-264 with 155-172: the next batch is cut and asyncio.run starts
\* _process_batch, whose fetch_data creates one coroutine per tuple.
StartBatch ==
    /\ pdpc = "loop"
    /\ i < Len(param_values)
    /\ LET values == Slice(param_values, i, i + optimal_batch_size) IN
        /\ batch_values' = values
        /\ tpc' = [t \in 1..Len(values) |-> "start"]
        /\ tparams' = [t \in 1..Len(values) |-> MakeParams(values[t])]
        /\ twake' = [t \in 1..Len(values) |-> 0]
        /\ attempts' = [t \in 1..Len(values) |-> 0]
        /\ tresp' = [t \in 1..Len(values) |-> None]
    /\ reordered' = FALSE
    /\ pdpc' = "gather"
    /\ UNCHANGED <<apiVars, uiVars, pipeVars, returned, gets, cfg, call, last_request_time, now, param_values, i,
                   batch_results, all_results, lastGet, pauseUntil, raised>>

\* batch.py:86-95: the rate limiter at the head of _make_request; a coroutine
\* that need not sleep stamps last_request_time and calls session.get. The event
\* loop starts the gathered coroutines in the order they were given; a
\* coroutine the backoff decorator calls again starts whenever its wait ends.
TaskStart(t) ==
    /\ pdpc = "gather"
    /\ \/ tpc[t] = "backoff"
       \/ /\ tpc[t] = "start"
          /\ \A u \in 1..(t - 1) : tpc[u] # "start"
    /\ attempts' = [attempts EXCEPT ![t] = @ + 1]
    /\ LET time_since_last_request == now - last_request_time IN
        IF time_since_last_request < request_interval THEN
            /\ tpc' = [tpc EXCEPT ![t] = "sleeping"]
            /\ twake' = [twake EXCEPT ![t] =
                            now + (request_interval - time_since_last_request)]
            /\ UNCHANGED <<last_request_time, lastGet, gets>>
        ELSE
            /\ tpc' = [tpc EXCEPT ![t] = "connwait"]
            /\ last_request_time' = now
            /\ lastGet' = Some(now)
            /\ gets' = Counted(gets, tparams[t])
            /\ UNCHANGED twake
    /\ UNCHANGED <<apiVars, uiVars, pipeVars, returned, cfg, call, now, pdpc, param_values, i, batch_values, tparams,
                   tresp, reordered, batch_results, all_results,
                   pauseUntil, raised>>

\* batch.py:91-95: asyncio.sleep returns; the coroutine stamps
\* last_request_time and calls session.get without looking at the clock again.
TaskWake(t) ==
    /\ pdpc = "gather"
    /\ tpc[t] = "sleeping"
    /\ now >= twake[t]
    /\ last_request_time' = now
    /\ lastGet' = Some(now)
    /\ gets' = Counted(gets, tparams[t])
    /\ tpc' = [tpc EXCEPT ![t] = "connwait"]
    /\ UNCHANGED <<apiVars, uiVars, pipeVars, returned, cfg, call, now, pdpc, param_values, i, batch_values, tparams,
                   twake, attempts, tresp, reordered, batch_results,
                   all_results, pauseUntil, raised>>

\* batch.py:95 with 196: the pending session.get obtains a connection from the
\* connector and the request is in flight.
Connect(t) ==
    /\ pdpc = "gather"
    /\ tpc[t] = "connwait"
    /\ ConnectorHasSlot
    /\ tpc' = [tpc EXCEPT ![t] = "inflight"]
    /\ UNCHANGED <<apiVars, uiVars, pipeVars, returned, gets, cfg, call, last_request_time, now, pdpc, param_values, i,
                   batch_values, tparams, twake, attempts, tresp, reordered,
                   batch_results, all_results, lastGet, pauseUntil, raised>>

\* batch.py:61-66 around 95-130: the GET ends (the total timeout can also end
\* the wait for a connection); the function body turns the ending into its
\* result, and the backoff decorator calls the body again when an exception of
\* RetryOn leaves it and fewer than max_tries calls were made.
RequestComplete(t, reply) ==
    /\ pdpc = "gather"
    /\ \/ tpc[t] = "inflight"
       \/ tpc[t] = "connwait" /\ reply.kind = "timeout"
    /\ LET r == MakeRequestBody(tparams[t], reply) IN
        IF r.kind = "raise" /\ r.exc[1] \in RetryOn /\ attempts[t] < max_tries THEN
            /\ tpc' = [tpc EXCEPT ![t] = "backoff"]
            /\ UNCHANGED <<tresp, reordered, pdpc, raised>>
        ELSE IF r.kind = "raise" THEN
            \* gather re-raises it, asyncio.run and process_dataframe pass it on
            /\ pdpc' = "raised"
            /\ raised' = Some([type |-> r.exc[1], name |-> "request"])
            /\ UNCHANGED <<tpc, tresp, reordered>>
        ELSE
            /\ tpc' = [tpc EXCEPT ![t] = "done"]
            /\ tresp' = [tresp EXCEPT ![t] = Some(r.resp)]
            /\ reordered' = (reordered \/ \E u \in 1..(t - 1) : tpc[u] # "done")
            /\ UNCHANGED <<pdpc, raised>>
    /\ UNCHANGED <<apiVars, uiVars, pipeVars, returned, gets, cfg, call, last_request_time, now, param_values, i,
                   batch_values, tparams, twake, attempts, batch_results,
                   all_results, lastGet, pauseUntil>>

\* The loop body without the time.sleep(1) between batches.
GatherReturnNoPause ==
    /\ pdpc = "gather"
    /\ \A t \in DOMAIN tpc : tpc[t] = "done"
    /\ batch_results' = GatherResults
    /\ all_results' = all_results \o GatherResults
    /\ pdpc' = "loop"
    /\ i' = i + optimal_batch_size
    /\ tpc' = <<>>
    /\ tparams' = <<>>
    /\ twake' = <<>>
    /\ attempts' = <<>>
    /\ tresp' = <<>>
    /\ UNCHANGED <<apiVars, uiVars, pipeVars, returned, gets, cfg, call,
                   last_request_time, now, param_values, batch_values,
                   reordered, lastGet, raised, pauseUntil>>

\* batch.py:172, 203, 260-270: every coroutine has returned; gather hands the
\* responses back, they are appended to all_results, and a further batch is
\* preceded by time.sleep(1).
GatherReturn ==
    /\ pdpc = "gather"
    /\ \A t \in DOMAIN tpc : tpc[t] = "done"
    /\ batch_results' = GatherResults
    /\ all_results' = all_results \o GatherResults
    /\ IF i + optimal_batch_size < Len(param_values) THEN
            /\ pdpc' = "pause"
            /\ pauseUntil' = now + 1
            /\ UNCHANGED i
       ELSE
            /\ pdpc' = "loop"
            /\ i' = i + optimal_batch_size
            /\ UNCHANGED pauseUntil
    /\ tpc' = <<>>
    /\ tparams' = <<>>
    /\ twake' = <<>>
    /\ attempts' = <<>>
    /\ tresp' = <<>>
    /\ UNCHANGED <<apiVars, uiVars, pipeVars, returned, gets, cfg, call, last_request_time, now, param_values, batch_values,
                   reordered, lastGet, raised>>

\* batch.py:270: time.sleep(1) is over, the loop goes on to the next batch
PauseEnd ==
    /\ pdpc = "pause"
    /\ now >= pauseUntil
    /\ pdpc' = "loop"
    /\ i' = i + optimal_batch_size
    /\ UNCHANGED <<apiVars, uiVars, pipeVars, returned, gets, cfg, call, last_request_time, now, param_values, batch_values,
                   tpc, tparams, twake, attempts, tresp, reordered,
                   batch_results, all_results, lastGet, pauseUntil, raised>>

\* batch.py:252, 272-277: no tuple is left, the results go to the handler
LoopEnd ==
    /\ pdpc = "loop"
    /\ i >= Len(param_values)
    /\ pdpc' = "done"
    /\ returned' = default_result_handler(all_results, call.param_names)
    /\ UNCHANGED <<apiVars, uiVars, pipeVars, gets, cfg, call, last_request_time, now, param_values, i,
                   batch_values, tpc, tparams, twake, attempts, tresp,
                   reordered, batch_results, all_results, lastGet,
                   pauseUntil, raised>>

\* The clock advances while requests are awaited or the loop sleeps. The
\* event loop runs the first step of every gathered coroutine back to back,
\* in far less than a second, so no second passes before all have started.
AdvanceTime ==
    /\ pdpc \in {"gather", "pause"}
    /\ \A t \in DOMAIN tpc : tpc[t] # "start"
    /\ now < StartTime + MaxElapsed
    /\ now' = now + 1
    /\ UNCHANGED <<apiVars, uiVars, pipeVars, returned, gets, cfg, call, last_request_time, pdpc, param_values, i,
                   batch_values, tpc, tparams, twake, attempts, tresp,
                   reordered, batch_results, all_results, lastGet,
                   pauseUntil, raised>>

BatchNext ==
    \/ ProcessDataframeStart
    \/ StartBatch
    \/ \E t \in DOMAIN tpc : TaskStart(t)
    \/ \E t \in DOMAIN tpc : TaskWake(t)
    \/ \E t \in DOMAIN tpc : Connect(t)
    \/ \E t \in DOMAIN tpc : \E reply \in Replies : RequestComplete(t, reply)
    \/ GatherReturn
    \/ PauseEnd
    \/ LoopEnd
    \/ AdvanceTime

(***************************************************************************)
(* Inference API: values                                                   *)
(***************************************************************************)
\* frontend/app.py:12 and test_api.py:9: the length of an encoded vector
EXPECTED_VECTOR_LENGTH == 91

\* A JSON value inside a vector: a number, a string that float() parses
\* ("1.5"), any other string, true/false, or null. val is the number it
\* denotes (0 where it denotes none).
Number(v) == [kind |-> "number", val |-> v]
NumericString(v) == [kind |-> "numstr", val |-> v]
Text == [kind |-> "text", val |-> 0]
Bool(b) == [kind |-> "bool", val |-> IF b THEN 1 ELSE 0]
Null == [kind |-> "null", val |-> 0]

\* [entry] * n
Fill(n, entry) == [k \in 1..n |-> entry]

\* vector with the entry at (1-based) position p replaced
WithEntry(vector, p, entry) == [vector EXCEPT ![p] = entry]

Zeros == Fill(EXPECTED_VECTOR_LENGTH, Number(0))
Ones == Fill(EXPECTED_VECTOR_LENGTH, Number(1))
TooShort == Fill(EXPECTED_VECTOR_LENGTH - 1, Number(0))
TooLong == Fill(EXPECTED_VECTOR_LENGTH + 1, Number(1))
AllText == Fill(EXPECTED_VECTOR_LENGTH, Text)
OneText == WithEntry(Ones, 7, Text)

\* The "features" lists posted to /predict that are explored.
ApiFeatures ==
    { <<Zeros>>, <<Ones, Zeros>>, <<Zeros, Zeros, Ones>>,
      <<TooShort>>, <<Ones, TooLong>>,
      <<AllText>>, <<Zeros, OneText>> }

\* What the model file can be: absent, not a pickle, a fitted two-class
\* logistic regression with classes 0/1, one fitted with the labels 1/2, and
\* an estimator whose predict raises on every input.
ModelFiles == {"missing", "corrupt", "lr", "labels12", "raising"}

Environments == {"local", "production"}

IsNumbers(vector) == \A k \in 1..Len(vector) : vector[k].kind = "number"

(***************************************************************************)
(* Inference API: the pickled model                                        *)
(***************************************************************************)
\* main.py:27: os.path.exists(model_path)
ModelFileExists(m) == m # "missing"

\* main.py:31-32: pickle.load succeeds
Unpickles(m) == m \notin {"missing", "corrupt"}

\* model.predict_proba for one row: the probabilities, in percent, of the
\* first and of the second class.
PredictProbaRow(m, vector) ==
    IF vector[1].val > 0 THEN <<20, 80>> ELSE <<70, 30>>

\* model.predict for one row: the label of the likelier class.
PredictRow(m, vector) ==
    LET column == IF PredictProbaRow(m, vector)[2] > PredictProbaRow(m, vector)[1]
                  THEN 1 ELSE 0
    IN  IF m = "labels12" THEN column + 1 ELSE column

\* model.predict(X) / predict_proba(X) raise: the estimator is broken, or X is
\* not a matrix of 91 numeric columns (scikit-learn checks it against the
\* number of features seen in fit).
PredictRaises(m, X) ==
    \/ m = "raising"
    \/ \E r \in 1..Len(X) :
          Len(X[r]) # EXPECTED_VECTOR_LENGTH \/ ~IsNumbers(X[r])

(***************************************************************************)
(* Inference API: the endpoints                                            *)
(***************************************************************************)
\* An HTTP answer: the status, the batch_results of a 200 from /predict, the
\* detail of an error, the body of /health.
Response(status, results, detail, health) ==
    [status |-> status, batch_results |-> results, detail |-> detail,
     health |-> health]

\* schemas.PredictionOutput
PredictionOutput(predicted_class, probability) ==
    [predicted_class |-> predicted_class, probability |-> probability]

\* A health check that also looks for the model file.
health_check_with_model ==
    IF ModelFileExists(modelFile)
    THEN Response(200, <<>>, None, Some([status |-> "ok", env |-> environment]))
    ELSE Response(503, <<>>, None, Some([status |-> "down", env |-> environment]))

\* main.py:12-14
health_check ==
    Response(200, <<>>, None, Some([status |-> "ok", env |-> environment]))

\* The loop with the probability of every item read from the first row.
ResultsLoopFirstRow(m, X, k, results_list) ==
    [raised |-> FALSE,
     results_list |->
        [r \in 1..Len(X) |->
            PredictionOutput(PredictRow(m, X[r]),
                             PredictProbaRow(m, X[1])[PredictRow(m, X[1]) + 1])]]

\* A loop that stops at the first item it cannot convert and keeps the rest.
RECURSIVE ResultsLoopPartial(_, _, _, _)
ResultsLoopPartial(m, X, k, results_list) ==
    IF k > Len(X) THEN [raised |-> FALSE, results_list |-> results_list]
    ELSE LET pred_class == PredictRow(m, X[k])
             row == PredictProbaRow(m, X[k])
         IN  IF pred_class + 1 > Len(row)
             THEN [raised |-> FALSE, results_list |-> results_list]
             ELSE ResultsLoopPartial(m, X, k + 1,
                    Append(results_list,
                           PredictionOutput(pred_class, row[pred_class + 1])))

\* main.py:38-50: results_list is built item by item from item k (1-based) on;
\* pred_probs_all[i][pred_class] raises IndexError when the predicted label is
\* no column of the probability row.
RECURSIVE ResultsLoop(_, _, _, _)
ResultsLoop(m, X, k, results_list) ==
    IF k > Len(X) THEN [raised |-> FALSE, results_list |-> results_list]
    ELSE LET pred_class == PredictRow(m, X[k])
             row == PredictProbaRow(m, X[k])
         IN  IF pred_class + 1 > Len(row)
             THEN [raised |-> TRUE, results_list |-> results_list]
             ELSE ResultsLoop(m, X, k + 1,
                    Append(results_list,
                           PredictionOutput(pred_class, row[pred_class + 1])))

\* main.py:54-56: the except clause: the error is logged and answered with 400
PredictionError(why, modelCalled) ==
    [response |-> Response(400, <<>>,
                    Some([text |-> "Error processing array", about |-> why,
                          index |-> None]), None),
     modelCalled |-> modelCalled, logged |-> TRUE]

\* main.py:17-58: the handler, for the features of a validated payload and
\* the model file in place.
predict(features, m) ==
    IF ~ModelFileExists(m) THEN PredictionError("Model not found", FALSE)
    ELSE IF ~Unpickles(m) THEN PredictionError("unpickling", FALSE)
    ELSE IF PredictRaises(m, features) THEN PredictionError("predict", TRUE)
    ELSE LET loop == ResultsLoop(m, features, 1, <<>>) IN
         IF loop.raised THEN PredictionError("index out of range", TRUE)
         ELSE [response |-> Response(200, loop.results_list, None, None),
               modelCalled |-> TRUE, logged |-> FALSE]

\* schemas.VectorInput (the module is not part of the sources; modelled from
\* the API's tests): features is a list of lists of floats, each of
\* EXPECTED_VECTOR_LENGTH entries. The errors found: a vector with an entry
\* that is no number, and the first vector of another length.
VectorInputErrors(features) ==
    LET notFloat == {r \in 1..Len(features) : ~IsNumbers(features[r])}
        badLength == {r \in 1..Len(features) :
                        Len(features[r]) # EXPECTED_VECTOR_LENGTH}
    IN  {[text |-> "Input should be a valid number", about |-> "type",
          index |-> Some(r - 1)] : r \in notFloat}
        \cup
        {[text |-> "Vector at index", about |-> "length", index |-> Some(r - 1)] :
            r \in {q \in badLength : \A o \in badLength : q <= o}}

\* A handler declared without the VectorInput type: the body is not validated.
PredictEndpointUnvalidated(features, m) == predict(features, m)

\* main.py:16-17: FastAPI validates the body against VectorInput before it
\* calls the handler, and answers 422 with the errors when it does not fit.
PredictEndpoint(features, m) ==
    LET errors == VectorInputErrors(features) IN
    IF errors # {} THEN
        [response |-> Response(422, <<>>,
                               Some(CHOOSE e \in errors :
                                      \A o \in errors : e.index[1] <= o.index[1]),
                               None),
         modelCalled |-> FALSE, logged |-> FALSE]
    ELSE predict(features, m)

(***************************************************************************)
(* Inference API: the state machine                                        *)
(***************************************************************************)
ApiInit ==
    /\ modelFile \in ModelFiles
    /\ environment \in Environments
    /\ apiLog = <<>>

\* What the batch processor's variables are while it is not run.
BatchIdle ==
    /\ cfg = [max_concurrent_requests |-> 1, rate_limit_per_minute |-> 60,
              retries |-> 3]
    /\ call = Call(DfEmpty, <<"pubStartDate">>, 100, None)
    /\ last_request_time = 0
    /\ now = StartTime
    /\ pdpc = "idle"
    /\ param_values = <<>>
    /\ i = 0
    /\ batch_values = <<>>
    /\ tpc = <<>>
    /\ tparams = <<>>
    /\ twake = <<>>
    /\ attempts = <<>>
    /\ tresp = <<>>
    /\ reordered = FALSE
    /\ batch_results = <<>>
    /\ all_results = <<>>
    /\ lastGet = None
    /\ pauseUntil = 0
    /\ raised = None
    /\ gets = <<>>
    /\ returned = <<>>

\* What the API's variables are while no request is made.
ApiIdle ==
    /\ modelFile = "lr"
    /\ environment = "local"
    /\ apiLog = <<>>

Exchange(endpoint, features, m, outcome) ==
    [endpoint |-> endpoint, features |-> features, model |-> m,
     response |-> outcome.response, modelCalled |-> outcome.modelCalled,
     logged |-> outcome.logged]

\* GET /health
GetHealth ==
    /\ Len(apiLog) < MaxRequests
    /\ apiLog' = Append(apiLog,
          Exchange("health", <<>>, modelFile,
                   [response |-> health_check, modelCalled |-> FALSE,
                    logged |-> FALSE]))
    /\ UNCHANGED <<modelFile, environment, batchVars, uiVars, pipeVars>>

\* POST /predict with a results_list that outlives the request: the
\* predictions of the previous answered request come first.
PostPredictAccumulating(features) ==
    /\ Len(apiLog) < MaxRequests
    /\ apiLog' = Append(apiLog,
          LET this == Exchange("predict", features, modelFile,
                               PredictEndpoint(features, modelFile))
          IN  IF /\ apiLog # <<>>
                 /\ apiLog[Len(apiLog)].endpoint = "predict"
                 /\ apiLog[Len(apiLog)].response.status = 200
                 /\ this.response.status = 200
              THEN [this EXCEPT !.response.batch_results =
                        apiLog[Len(apiLog)].response.batch_results \o @]
              ELSE this)
    /\ UNCHANGED <<modelFile, environment, batchVars, uiVars, pipeVars>>

\* POST /predict with the body {"features": features}
PostPredict(features) ==
    /\ Len(apiLog) < MaxRequests
    /\ apiLog' = Append(apiLog,
          Exchange("predict", features, modelFile,
                   PredictEndpoint(features, modelFile)))
    /\ UNCHANGED <<modelFile, environment, batchVars, uiVars, pipeVars>>

\* The model file is replaced, removed or put in place between two requests.
ReplaceModelFile(m) ==
    /\ Len(apiLog) < MaxRequests
    /\ m # modelFile
    /\ modelFile' = m
    /\ UNCHANGED <<environment, apiLog, batchVars, uiVars, pipeVars>>

ApiNext ==
    \/ GetHealth
    \/ \E features \in ApiFeatures : PostPredict(features)
    \/ \E m \in ModelFiles : ReplaceModelFile(m)

(***************************************************************************)
(* Streamlit front end: values                                             *)
(***************************************************************************)
\* The text of the payload box: whether it is well-formed JSON, the type of
\* its top-level value, and the value under "features" (None when the key is
\* absent). A features value is a list of items or something else; an item is
\* a list of entries or something else.
JsonText(wellFormed, top, featuresValue) ==
    [wellFormed |-> wellFormed, top |-> top, features |-> featuresValue]

ListOf(items) == [isList |-> TRUE, items |-> items]
NotAList == [isList |-> FALSE, items |-> <<>>]
VectorItem(entries) == [isList |-> TRUE, entries |-> entries]
ScalarItem == [isList |-> FALSE, entries |-> <<>>]

\* json.dumps of {"features": vectors}
JsonDumps(vectors) ==
    JsonText(TRUE, "object",
             Some(ListOf([r \in 1..Len(vectors) |-> VectorItem(vectors[r])])))

\* app.py:21-24
build_sample_payload(batch_size) == [r \in 1..batch_size |-> Zeros]

\* app.py:270: the bounds of the "Sample batch size" input
SampleBatchMin == 1
SampleBatchMax == 5
\* app.py:231: the bounds of the "Duplicate this sample" input
FormBatchMin == 1
FormBatchMax == 10

\* The texts a user types into the payload box.
TypedTexts ==
    { JsonText(FALSE, "none", None),
      JsonText(TRUE, "array", None),
      JsonText(TRUE, "object", None),
      JsonText(TRUE, "object", Some(NotAList)),
      JsonText(TRUE, "object", Some(ListOf(<<>>))),
      JsonText(TRUE, "object", Some(ListOf(<<VectorItem(Zeros), ScalarItem>>))),
      JsonDumps(<<Ones>>),
      JsonDumps(<<Zeros, TooShort>>),
      JsonDumps(<<TooLong>>),
      JsonDumps(<<Zeros, OneText>>),
      JsonDumps(<<WithEntry(Zeros, 91, Null)>>),
      JsonDumps(<<WithEntry(Zeros, 3, NumericString(1)), Ones>>),
      JsonDumps(<<WithEntry(Zeros, 1, Bool(TRUE))>>) }

\* What preprocessor.transform yields for the form: an encoded row (of the
\* length the preprocessor was fitted to), or an exception.
TransformOutcomes ==
    { [raised |-> FALSE, vec |-> Zeros],
      [raised |-> FALSE, vec |-> Ones],
      [raised |-> FALSE, vec |-> TooShort],
      [raised |-> FALSE, vec |-> TooLong],
      [raised |-> TRUE, vec |-> <<>>] }

\* How requests.post / raise_for_status end in call_predict.
CallOutcomes == {"ok", "failed"}

ApiUrls == {"", "https://cve-api/predict"}

(***************************************************************************)
(* Streamlit front end: pure parts                                         *)
(***************************************************************************)
\* float(x) of Python: defined on numbers, booleans and numeric strings
FloatRaises(entry) == entry.kind \notin {"number", "numstr", "bool"}
Float(entry) == Number(entry.val)

\* A raised ValueError: its message, and the index and the length the
\* message names (None when it names none); nothing is returned.
RaiseNaming(text, index, length) ==
    [raised |-> TRUE,
     error |-> [text |-> text, index |-> index, length |-> length],
     payload |-> <<>>]

Raise(text, index) == RaiseNaming(text, index, None)

\* app.py:39-49: the loop body raises for this item
ItemFails(item) ==
    \/ ~item.isList
    \/ Len(item.entries) # EXPECTED_VECTOR_LENGTH
    \/ \E k \in 1..Len(item.entries) : FloatRaises(item.entries[k])

\* app.py:38: the index (0-based) of the first item the loop raises for, or
\* None
FirstFailing(items) ==
    LET bad == {r \in 1..Len(items) : ItemFails(items[r])}
    IN  IF bad = {} THEN None
        ELSE Some((CHOOSE r \in bad : \A o \in bad : r <= o) - 1)

\* validate_payload that returns the parsed data instead of clean_vectors.
validate_payload_uncleaned(raw_text) ==
    IF ~raw_text.wellFormed THEN Raise("JSONDecodeError", None)
    ELSE IF raw_text.top # "object"
    THEN Raise("Payload must be a JSON object with a 'features' key.", None)
    ELSE IF \/ raw_text.features = None
            \/ ~raw_text.features[1].isList
            \/ raw_text.features[1].items = <<>>
    THEN Raise("The 'features' field must be a non-empty list of vectors.", None)
    ELSE
        LET items == raw_text.features[1].items
            failing == FirstFailing(items)
        IN  IF failing = None THEN
                [raised |-> FALSE, error |-> [text |-> "", index |-> None, length |-> None],
                 payload |-> [r \in 1..Len(items) |-> items[r].entries]]
            ELSE Raise("invalid vector", failing)

\* validate_payload without the check of the vectors' length.
validate_payload_any_length(raw_text) ==
    IF ~raw_text.wellFormed THEN Raise("JSONDecodeError", None)
    ELSE IF raw_text.top # "object"
    THEN Raise("Payload must be a JSON object with a 'features' key.", None)
    ELSE IF \/ raw_text.features = None
            \/ ~raw_text.features[1].isList
            \/ raw_text.features[1].items = <<>>
    THEN Raise("The 'features' field must be a non-empty list of vectors.", None)
    ELSE
        LET items == raw_text.features[1].items
            bad == {r \in 1..Len(items) :
                       \/ ~items[r].isList
                       \/ \E k \in 1..Len(items[r].entries) : FloatRaises(items[r].entries[k])}
        IN  IF bad = {} THEN
                [raised |-> FALSE, error |-> [text |-> "", index |-> None, length |-> None],
                 payload |-> [r \in 1..Len(items) |->
                                [k \in 1..Len(items[r].entries) |->
                                    Float(items[r].entries[k])]]]
            ELSE
                LET first == CHOOSE r \in bad : \A o \in bad : r <= o IN
                IF ~items[first].isList THEN Raise("Vector is not a list.", Some(first - 1))
                ELSE Raise("Vector contains non-numeric values.", Some(first - 1))

\* app.py:27-51: the payload (its clean vectors) or the ValueError raised
validate_payload(raw_text) ==
    IF ~raw_text.wellFormed THEN Raise("JSONDecodeError", None)
    ELSE IF raw_text.top # "object"
    THEN Raise("Payload must be a JSON object with a 'features' key.", None)
    ELSE IF \/ raw_text.features = None
            \/ ~raw_text.features[1].isList
            \/ raw_text.features[1].items = <<>>
    THEN Raise("The 'features' field must be a non-empty list of vectors.", None)
    ELSE
        LET items == raw_text.features[1].items
            failing == FirstFailing(items)
        IN  IF failing = None THEN
                [raised |-> FALSE, error |-> [text |-> "", index |-> None, length |-> None],
                 payload |-> [r \in 1..Len(items) |->
                                [k \in 1..Len(items[r].entries) |->
                                    Float(items[r].entries[k])]]]
            ELSE
                LET item == items[failing[1] + 1] IN
                IF ~item.isList THEN Raise("Vector is not a list.", failing)
                ELSE IF Len(item.entries) # EXPECTED_VECTOR_LENGTH
                THEN RaiseNaming("Vector has length", failing, Some(Len(item.entries)))
                ELSE Raise("Vector contains non-numeric values.", failing)

\* app.py:78-94: the encoded vector, or the exception raised
build_vector_from_form(outcome) ==
    IF outcome.raised THEN Raise("transform failed", None)
    ELSE IF Len(outcome.vec) # EXPECTED_VECTOR_LENGTH
    THEN Raise("Encoded vector length", None)
    ELSE [raised |-> FALSE, error |-> [text |-> "", index |-> None, length |-> None],
          payload |-> outcome.vec]

(***************************************************************************)
(* Streamlit front end: rendering the predictions                          *)
(***************************************************************************)
\* One item of batch_results as r.get reads it: predicted_class and
\* probability, each None when the key is absent. Probabilities and the
\* threshold are in hundredths.
ResultItem(pred_class, prob) == [predicted_class |-> pred_class, probability |-> prob]

ResponseResults ==
    { <<>>,
      << ResultItem(Some(1), Some(90)) >>,
      << ResultItem(Some(1), Some(50)), ResultItem(Some(0), Some(70)) >>,
      << ResultItem(Some(1), Some(49)), ResultItem(Some(1), Some(51)) >>,
      << ResultItem(Some(0), Some(10)), ResultItem(Some(0), Some(100)),
         ResultItem(Some(1), Some(10)) >>,
      << ResultItem(Some(1), None), ResultItem(Some(0), None) >>,
      << ResultItem(Some(2), Some(95)), ResultItem(None, Some(95)) >> }

\* The values of the "High-risk threshold" slider that are tried.
RiskThresholds == {50, 90}

\* Only an answered call has results to render.
ResultsOf(callOutcome) == IF callOutcome = "ok" THEN ResponseResults ELSE {<<>>}

ThresholdsOf(callOutcome) == IF callOutcome = "ok" THEN RiskThresholds ELSE {50}

Rendered(path, results, risk_threshold, view) ==
    [path |-> path, results |-> results, risk_threshold |-> risk_threshold,
     table |-> view.table, badges |-> view.badges]

\* render_results with a strict comparison against the threshold.
render_results_strict(results, risk_threshold) ==
    [ table |->
          [k \in 1..Len(results) |->
              [num |-> k,
               label |-> IF results[k].predicted_class = Some(1)
                         THEN "Likely Exploited" ELSE "Not Exploited",
               probability |->
                   IF results[k].probability = None THEN None
                   ELSE IF results[k].predicted_class = Some(1)
                   THEN Some([text |-> "Confidence (Exploited)",
                              pct |-> results[k].probability[1]])
                   ELSE Some([text |-> "Confidence (Not Exploited)",
                              pct |-> results[k].probability[1]]),
               risk_flag |-> IF /\ results[k].predicted_class = Some(1)
                                /\ results[k].probability # None
                                /\ results[k].probability[1] > risk_threshold
                             THEN "High" ELSE "Low"]],
      badges |->
          [k \in {j \in 1..Len(results) : results[j].probability # None} |->
              [color |-> IF /\ results[k].predicted_class = Some(1)
                            /\ results[k].probability[1] > risk_threshold
                         THEN "red" ELSE "green",
               text |-> IF results[k].predicted_class = Some(1)
                        THEN "Confidence (Exploited)"
                        ELSE "Confidence (Not Exploited)",
               pct |-> results[k].probability[1]]] ]

\* app.py:97-138: the rows of the table and the badges drawn, by item
\* number; no badge is drawn for an item without a probability.
render_results(results, risk_threshold) ==
    [ table |->
          [k \in 1..Len(results) |->
              [num |-> k,
               label |-> IF results[k].predicted_class = Some(1)
                         THEN "Likely Exploited" ELSE "Not Exploited",
               probability |->
                   IF results[k].probability = None THEN None
                   ELSE IF results[k].predicted_class = Some(1)
                   THEN Some([text |-> "Confidence (Exploited)",
                              pct |-> results[k].probability[1]])
                   ELSE Some([text |-> "Confidence (Not Exploited)",
                              pct |-> results[k].probability[1]]),
               risk_flag |-> IF /\ results[k].predicted_class = Some(1)
                                /\ results[k].probability # None
                                /\ results[k].probability[1] >= risk_threshold
                             THEN "High" ELSE "Low"]],
      badges |->
          [k \in {j \in 1..Len(results) : results[j].probability # None} |->
              [color |-> IF /\ results[k].predicted_class = Some(1)
                            /\ results[k].probability[1] >= risk_threshold
                         THEN "red" ELSE "green",
               text |-> IF results[k].predicted_class = Some(1)
                        THEN "Confidence (Exploited)"
                        ELSE "Confidence (Not Exploited)",
               pct |-> results[k].probability[1]]] ]

\* app.py:293-324: the same for the raw JSON path, which shows the
\* probability as a percentage and a "Vulnerability Score" badge.
render_raw(results, risk_threshold) ==
    [ table |->
          [k \in 1..Len(results) |->
              [num |-> k,
               label |-> IF results[k].predicted_class = Some(1)
                         THEN "Likely Exploited" ELSE "Not Exploited",
               probability_pct |->
                   IF results[k].probability # None
                   THEN Some(results[k].probability[1]) ELSE None,
               risk_flag |-> IF /\ results[k].predicted_class = Some(1)
                                /\ results[k].probability # None
                                /\ results[k].probability[1] >= risk_threshold
                             THEN "High" ELSE "Low"]],
      badges |->
          [k \in {j \in 1..Len(results) : results[j].probability # None} |->
              [color |-> IF /\ results[k].predicted_class = Some(1)
                            /\ results[k].probability[1] >= risk_threshold
                         THEN "red" ELSE "green",
               text |-> "Vulnerability Score",
               pct |-> results[k].probability[1]]] ]

(***************************************************************************)
(* Streamlit front end: the state machine                                  *)
(***************************************************************************)
\* app.py:13-18, 190-193
UiInit ==
    /\ payload_text = JsonDumps(build_sample_payload(2))
    /\ api_url \in ApiUrls
    /\ preprocessor \in BOOLEAN
    /\ lastClick = None

\* What the front end's variables are while it is not used.
UiIdle ==
    /\ payload_text = JsonDumps(build_sample_payload(2))
    /\ api_url = ""
    /\ preprocessor = FALSE
    /\ lastClick = None

\* One click on a send button: where it came from, what the preprocessor
\* made of the form, the payload handed to call_predict (None when
\* call_predict was not reached) and the error shown (None when none was).
\* The raw text a click validated is payload_text, which the click leaves as
\* it is; any other interaction reruns the script and clears the outcome.
Click(source, transformed, posted, error) ==
    [source |-> source, transformed |-> transformed, posted |-> posted,
     error |-> error]

NoTransform == [raised |-> FALSE, vec |-> <<>>]

\* the user edits the payload box
TypePayload(text) ==
    /\ text # payload_text
    /\ payload_text' = text
    /\ lastClick' = None
    /\ rendered' = None
    /\ UNCHANGED <<api_url, preprocessor, batchVars, apiVars, dates, ex, proc, feat, bq>>

\* app.py:268-273: "Generate sample payload"
GenerateSample(batch_size) ==
    /\ payload_text' = JsonDumps(build_sample_payload(batch_size))
    /\ lastClick' = None
    /\ rendered' = None
    /\ UNCHANGED <<api_url, preprocessor, batchVars, apiVars, dates, ex, proc, feat, bq>>

\* app.py:275-335: "Send to /predict"; the predictions of an answered call
\* are rendered inline (293-324).
SendToPredict(callOutcome, results, risk_threshold) ==
    /\ rendered' = IF /\ api_url # ""
                      /\ ~validate_payload(payload_text).raised
                      /\ callOutcome = "ok"
                   THEN Some(Rendered("raw", results, risk_threshold,
                                      render_raw(results, risk_threshold)))
                   ELSE None
    /\ LET v == validate_payload(payload_text) IN
       lastClick' = Some(
          IF api_url = "" THEN
              Click("raw", NoTransform, None,
                    Some("Please set the predict endpoint URL."))
          ELSE IF v.raised THEN
              Click("raw", NoTransform, None,
                    Some("Invalid payload"))
          ELSE
              Click("raw", NoTransform, Some(v.payload),
                    IF callOutcome = "ok" THEN None ELSE Some("API call failed")))
    /\ UNCHANGED <<payload_text, api_url, preprocessor, batchVars, apiVars, dates, ex, proc, feat, bq>>

\* app.py:233-258: "Build from form and send", shown when the preprocessor
\* was loaded; the predictions of an answered call go to render_results.
BuildFromFormAndSend(outcome, form_batch, callOutcome, results, risk_threshold) ==
    /\ preprocessor
    /\ rendered' = IF /\ ~build_vector_from_form(outcome).raised
                      /\ callOutcome = "ok"
                      /\ api_url # ""
                   THEN Some(Rendered("form", results, risk_threshold,
                                      render_results(results, risk_threshold)))
                   ELSE None
    /\ LET b == build_vector_from_form(outcome) IN
       lastClick' = Some(
          IF b.raised THEN
              Click("form", outcome, None,
                    Some("Form build or API call failed"))
          ELSE
              Click("form", outcome,
                    Some([r \in 1..form_batch |-> b.payload]),
                    IF callOutcome = "ok" /\ api_url # "" THEN None
                    ELSE Some("Form build or API call failed")))
    /\ UNCHANGED <<payload_text, api_url, preprocessor, batchVars, apiVars, dates, ex, proc, feat, bq>>

UiNext ==
    \/ \E text \in TypedTexts : TypePayload(text)
    \/ \E n \in SampleBatchMin..SampleBatchMax : GenerateSample(n)
    \/ \E callOutcome \in CallOutcomes :
          \E results \in ResultsOf(callOutcome) :
             \E risk_threshold \in ThresholdsOf(callOutcome) :
                SendToPredict(callOutcome, results, risk_threshold)
    \/ \E outcome \in TransformOutcomes :
          \E n \in {FormBatchMin, FormBatchMax} :
             \E callOutcome \in CallOutcomes :
                \E results \in ResultsOf(callOutcome) :
                   \E risk_threshold \in ThresholdsOf(callOutcome) :
                      BuildFromFormAndSend(outcome, n, callOutcome, results, risk_threshold)

(***************************************************************************)
(* Later stages while they are not run                                     *)
(***************************************************************************)
ProcIdle == proc = [pc |-> "idle"]

FeatIdle == feat = [pc |-> "idle"]

BqIdle == bq = [pc |-> "idle"]

RenderIdle == rendered = None

(***************************************************************************)
(* Ingestion pipelines: the monthly query parameters                       *)
(***************************************************************************)
\* The years get_Dates is called with: leap years, the century 1900 that is
\* none, the century 2000 that is one.
DatesYears == (1896..1905) \cup {2000}

\* range(a, b, step) of Python, step > 0
PyRange(a, b, step) ==
    [k \in 1..(IF b > a THEN (b - a + step - 1) \div step ELSE 0) |->
        a + (k - 1) * step]

\* A leap year every fourth year, centuries included.
isleap_every_fourth(year) == year % 4 = 0

\* calendar.isleap
isleap(year) == year % 4 = 0 /\ (year % 100 # 0 \/ year % 400 = 0)

\* calendar.mdays[1:]
mdays == <<31, 28, 31, 30, 31, 30, 31, 31, 30, 31, 30, 31>>

\* calendar.monthrange(year, month)[1]: the number of days of the month
monthrange(year, month) ==
    mdays[month] + (IF month = 2 /\ isleap(year) THEN 1 ELSE 0)

\* str(n) for n >= 0: the decimal digits, without padding
RECURSIVE Str(_)
Str(n) == IF n < 10 THEN <<n>> ELSE Append(Str(n \div 10), n % 10)

\* date.strftime("%m"): the month as two digits
strftime_m(month) == <<month \div 10, month % 10>>

\* The f-string "{year}-{month}-{day}T{clock}" as its fields, each the
\* characters formatted into it.
DateTimeText(year, month, day, clock) ==
    [year |-> year, month |-> month, day |-> day, clock |-> clock]

\* ingest.py:37-44: the dict of one month and one startIndex
MonthDict(year, month, startIndex) ==
    LET last_date == monthrange(year, month) IN
    [pubStartDate |-> DateTimeText(Str(year), strftime_m(month), <<0, 1>>,
                                   "00:00:00.000"),
     pubEndDate |-> DateTimeText(Str(year), strftime_m(month), Str(last_date),
                                 "23:59:59.999"),
     startIndex |-> startIndex]

\* ingest.py:36-45: the inner loop over range(0, 6000, 2000)
MonthParams(year, month) ==
    LET starts == PyRange(0, 6000, 2000) IN
    [k \in 1..Len(starts) |-> MonthDict(year, month, starts[k])]

\* ingest.py:35: the loop over range(1, 13), from month on
RECURSIVE MonthsFrom(_, _)
MonthsFrom(year, month) ==
    IF month >= 13 THEN <<>>
    ELSE MonthParams(year, month) \o MonthsFrom(year, month + 1)

\* ingest.py:33: the loop over range(start_year, end_year + 1): the dicts of
\* each year follow those of the years before it. The range is taken in two
\* halves, which keeps the evaluation shallow for a range of many years.
RECURSIVE YearsFrom(_, _)
YearsFrom(start_year, end_year) ==
    IF start_year >= end_year + 1 THEN <<>>
    ELSE IF start_year = end_year THEN MonthsFrom(start_year, 1)
    ELSE LET middle == (start_year + end_year) \div 2
         IN  YearsFrom(start_year, middle) \o YearsFrom(middle + 1, end_year)

\* pdpipeline/ingest.py:31-46
get_Dates(start_year, end_year) == YearsFrom(start_year, end_year)

\* plpipeline/extract.py:51-65, the same loops as get_Dates
get_Params(start_year, end_year) == YearsFrom(start_year, end_year)

(***************************************************************************)
(* Ingestion pipelines: get_Dates called                                   *)
(***************************************************************************)
DatesInit == dates = None

\* What the pipelines' variables are while they are not run.
DatesIdle == dates = None

\* pdpipeline/ingest.py:68: main calls get_Dates(start_year, end_year), once
GetDatesCall(start_year, end_year) ==
    /\ dates = None
    /\ dates' = Some([start_year |-> start_year, end_year |-> end_year,
                      params |-> get_Dates(start_year, end_year)])
    /\ UNCHANGED <<batchVars, apiVars, uiVars, ex, proc, feat, bq, rendered>>

DatesNext == \E start_year, end_year \in DatesYears : GetDatesCall(start_year, end_year)

(***************************************************************************)
(* Ingestion pipelines: ExtractCVE.extract                                 *)
(***************************************************************************)
\* The dates argument of extract: a year, and a range that holds none.
ExtractDates == {<<2024, 2024>>, <<2024, 2023>>}

ExtractBatchSizes == {10, 36}

\* What asyncio.run(self._process_batch(...)) ends in: the session answers
\* every request of the batch with a page, answers every request with 404,
\* lets the first request time out; opening the session or gathering raises;
\* asyncio.run itself raises.
BatchOutcomes == {"pages", "not_found", "first_timeout", "session_error", "run_error"}

\* The reply the request at position k of a batch gets
ReplyAt(outcome, k) ==
    IF outcome = "not_found"
    THEN [kind |-> "response", status |-> 404, json |-> FALSE, body |-> "text"]
    ELSE IF outcome = "first_timeout" /\ k = 1
    THEN [kind |-> "timeout", status |-> 0, json |-> FALSE, body |-> "text"]
    ELSE [kind |-> "response", status |-> 200, json |-> TRUE, body |-> "page"]

\* extract.py:116-130: _fetch_data, one _make_request per params dict
fetch_data_extract(batch_params, outcome) ==
    [k \in 1..Len(batch_params) |->
        MakeRequestBody(batch_params[k], ReplyAt(outcome, k)).resp]

\* extract.py:132-147: _process_batch. An exception inside the try is logged
\* and the function falls off its end, returning None.
process_batch_extract(batch_params, outcome) ==
    IF outcome = "session_error"
    THEN [raised |-> FALSE, logged |-> TRUE, value |-> None]
    ELSE IF outcome = "run_error"
    THEN [raised |-> TRUE, logged |-> FALSE, value |-> None]
    ELSE [raised |-> FALSE, logged |-> FALSE,
          value |-> Some(fetch_data_extract(batch_params, outcome))]

\* extract.py:180-213, with its fixed param_names
result_handler(results) ==
    default_result_handler(results, <<"pubStartDate", "pubEndDate", "startIndex">>)

Extract(pc, args, params, idx, results, log, outcomes, rows) ==
    [pc |-> pc, dates |-> args.dates, batch_size |-> args.batch_size,
     params |-> params, i |-> idx, results |-> results, log |-> log,
     outcomes |-> outcomes, returned |-> rows]

ExtractArgs(ds, batch_size) == [dates |-> ds, batch_size |-> batch_size]

ExtractInit ==
    \E ds \in ExtractDates, batch_size \in ExtractBatchSizes :
        ex = Extract("call", ExtractArgs(ds, batch_size), <<>>, 0, <<>>, <<>>,
                     <<>>, <<>>)

ExtractIdle ==
    ex = Extract("idle", ExtractArgs(<<2024, 2023>>, 10), <<>>, 0, <<>>, <<>>,
                 <<>>, <<>>)

PipeIdle == DatesIdle /\ ExtractIdle /\ ProcIdle /\ FeatIdle /\ BqIdle /\ RenderIdle

\* extract.py:156-158
ExtractStart ==
    /\ ex.pc = "call"
    /\ ex' = [ex EXCEPT !.pc = "loop",
                        !.params = get_Params(ex.dates[1], ex.dates[2]),
                        !.i = 0, !.results = <<>>]
    /\ UNCHANGED <<batchVars, apiVars, uiVars, dates, proc, feat, bq, rendered>>

\* One pass of the loop body that lets the exception of a failed batch leave
\* extract.
ExtractBatchUnguarded(outcome) ==
    /\ ex.pc = "loop"
    /\ ex.i < Len(ex.params)
    /\ LET batch_params == Slice(ex.params, ex.i, ex.i + ex.batch_size)
           run == process_batch_extract(batch_params, outcome)
           failed == run.raised \/ run.value = None
       IN  ex' = [ex EXCEPT
                 !.results = IF failed THEN @ ELSE @ \o run.value[1],
                 !.outcomes = Append(@, [failed |-> failed,
                                         batch_params |-> batch_params,
                                         value |-> run.value]),
                 !.pc = IF failed THEN "raised"
                        ELSE IF ex.i + ex.batch_size < Len(ex.params)
                        THEN "pause" ELSE "loop",
                 !.i = IF ~failed /\ ex.i + ex.batch_size >= Len(ex.params)
                       THEN @ + ex.batch_size ELSE @]
    /\ UNCHANGED <<batchVars, apiVars, uiVars, dates, proc, feat, bq, rendered>>

\* extract.py:159-177: one pass of the loop body. asyncio.run raising, or
\* results.extend(None) raising TypeError after _process_batch returned None,
\* is caught and logged at 174-175; the loop goes on.
ExtractBatch(outcome) ==
    /\ ex.pc = "loop"
    /\ ex.i < Len(ex.params)
    /\ LET batch_params == Slice(ex.params, ex.i, ex.i + ex.batch_size)
           run == process_batch_extract(batch_params, outcome)
           failed == run.raised \/ run.value = None
           batch_no == ex.i \div ex.batch_size + 1
           logged == (IF run.logged THEN <<batch_no>> ELSE <<>>)
                     \o (IF failed THEN <<batch_no>> ELSE <<>>)
       IN  ex' = [ex EXCEPT
                 !.results = IF failed THEN @ ELSE @ \o run.value[1],
                 !.log = @ \o logged,
                 !.outcomes = Append(@, [failed |-> failed,
                                         batch_params |-> batch_params,
                                         value |-> run.value]),
                 !.pc = IF ex.i + ex.batch_size < Len(ex.params)
                        THEN "pause" ELSE "loop",
                 !.i = IF ex.i + ex.batch_size < Len(ex.params)
                       THEN @ ELSE @ + ex.batch_size]
    /\ UNCHANGED <<batchVars, apiVars, uiVars, dates, proc, feat, bq, rendered>>

\* extract.py:176-177: time.sleep(1) is over
ExtractPauseEnd ==
    /\ ex.pc = "pause"
    /\ ex' = [ex EXCEPT !.pc = "loop", !.i = @ + ex.batch_size]
    /\ UNCHANGED <<batchVars, apiVars, uiVars, dates, proc, feat, bq, rendered>>

\* extract.py:159, 178: no params are left, the results go to _result_handler
ExtractReturn ==
    /\ ex.pc = "loop"
    /\ ex.i >= Len(ex.params)
    /\ ex' = [ex EXCEPT !.pc = "done", !.returned = result_handler(ex.results)]
    /\ UNCHANGED <<batchVars, apiVars, uiVars, dates, proc, feat, bq, rendered>>

ExtractNext ==
    \/ ExtractStart
    \/ \E outcome \in BatchOutcomes : ExtractBatch(outcome)
    \/ ExtractPauseEnd
    \/ ExtractReturn

(***************************************************************************)
(* Specifications                                                          *)
(***************************************************************************)
InitUi == UiInit /\ BatchIdle /\ ApiIdle /\ PipeIdle

SpecUi == InitUi /\ [][UiNext]_vars

InitApi == ApiInit /\ BatchIdle /\ UiIdle /\ PipeIdle

SpecApi == InitApi /\ [][ApiNext]_vars

InitBatch == BatchInit /\ ApiIdle /\ UiIdle /\ PipeIdle

SpecBatch == InitBatch /\ [][BatchNext]_vars

InitDates == DatesInit /\ ExtractIdle /\ ProcIdle /\ FeatIdle /\ BqIdle /\ RenderIdle /\ BatchIdle /\ ApiIdle /\ UiIdle

SpecDates == InitDates /\ [][DatesNext]_vars

InitExtract == ExtractInit /\ DatesIdle /\ ProcIdle /\ FeatIdle /\ BqIdle /\ RenderIdle /\ BatchIdle /\ ApiIdle /\ UiIdle

SpecExtract == InitExtract /\ [][ExtractNext]_vars

(***************************************************************************)
(* Streamlit front end: claims                                             *)
(***************************************************************************)
\* a non-empty features list in which every vector has exactly 91 numbers
PayloadWellFormed(payload) ==
    /\ Len(payload) >= 1
    /\ \A r \in 1..Len(payload) :
          Len(payload[r]) = EXPECTED_VECTOR_LENGTH /\ IsNumbers(payload[r])

\* The text is a JSON object whose "features" is a non-empty list of lists of
\* 91 values that each denote a number (numbers, and the numeric strings and
\* booleans float() converts).
DenotesPayload(text) ==
    /\ text.wellFormed
    /\ text.top = "object"
    /\ text.features # None
    /\ text.features[1].isList
    /\ text.features[1].items # <<>>
    /\ \A r \in 1..Len(text.features[1].items) :
          LET item == text.features[1].items[r] IN
          /\ item.isList
          /\ Len(item.entries) = EXPECTED_VECTOR_LENGTH
          /\ \A k \in 1..Len(item.entries) :
                item.entries[k].kind \in {"number", "numstr", "bool"}

\* C9: every payload the UI hands to call_predict, from the form builder or
\* from the raw JSON box, has a non-empty features list in which every vector
\* has exactly 91 numeric entries; an input from which no such payload results
\* does not reach call_predict, and an error is shown instead.
C9_PostedPayloadsWellFormed ==
    lastClick # None =>
        LET c == lastClick[1] IN
        /\ c.posted # None => PayloadWellFormed(c.posted[1])
        /\ (c.source = "raw" /\ ~DenotesPayload(payload_text))
              => (c.posted = None /\ c.error # None)
        /\ (/\ c.source = "form"
            /\ \/ c.transformed.raised
               \/ Len(c.transformed.vec) # EXPECTED_VECTOR_LENGTH)
              => (c.posted = None /\ c.error # None)

\* A raw text with a numeric string among its entries was sent and posted.
C9_Witness ==
    /\ lastClick # None
    /\ lastClick[1].source = "raw"
    /\ lastClick[1].posted # None
    /\ payload_text = JsonDumps(<<WithEntry(Zeros, 3, NumericString(1)), Ones>>)

(***************************************************************************)
(* Inference API: claims                                                   *)
(***************************************************************************)
\* the exchanges of apiLog with /predict
PredictExchanges == {apiLog[k] : k \in {j \in 1..Len(apiLog) : apiLog[j].endpoint = "predict"}}

\* n >= 1 vectors of 91 numbers
ValidFeatures(features) ==
    /\ Len(features) >= 1
    /\ \A r \in 1..Len(features) :
          Len(features[r]) = EXPECTED_VECTOR_LENGTH /\ IsNumbers(features[r])

\* The model file m is there, is a pickle, and the estimator in it predicts
\* every row of X with a label that is a column of its probabilities.
ModelWorksOn(m, X) ==
    /\ ModelFileExists(m)
    /\ Unpickles(m)
    /\ ~PredictRaises(m, X)
    /\ \A r \in 1..Len(X) :
          PredictRow(m, X[r]) + 1 \in 1..Len(PredictProbaRow(m, X[r]))

\* the prediction of the model m for one vector
PredictionFor(m, vector) ==
    [predicted_class |-> PredictRow(m, vector),
     probability |-> PredictProbaRow(m, vector)[PredictRow(m, vector) + 1]]

\* The answer e.response is 200 with one entry per vector of e.features, entry
\* r being the prediction for vector r.
AnsweredWithPredictions(e) ==
    /\ e.response.status = 200
    /\ Len(e.response.batch_results) = Len(e.features)
    /\ \A r \in 1..Len(e.features) :
          /\ DOMAIN e.response.batch_results[r] = {"predicted_class", "probability"}
          /\ e.response.batch_results[r] = PredictionFor(e.model, e.features[r])

\* C5 as stated: POST /predict with n >= 1 vectors of 91 numbers answers 200
\* with exactly n batch_results, the i-th the prediction for the i-th vector,
\* each with a predicted_class and a probability.
C5_ValidBatchAnswered200 ==
    \A e \in PredictExchanges :
        ValidFeatures(e.features) => AnsweredWithPredictions(e)

\* C5 as amended: the same, provided the model file exists, unpickles and the
\* model predicts the batch without error.
C5_ValidBatchAnswered200WhenModelWorks ==
    \A e \in PredictExchanges :
        (ValidFeatures(e.features) /\ ModelWorksOn(e.model, e.features))
            => AnsweredWithPredictions(e)

\* A batch of three vectors, not all with the same prediction, answered 200.
C5_Witness ==
    \E e \in PredictExchanges :
        /\ e.features = <<Zeros, Zeros, Ones>>
        /\ e.response.status = 200
        /\ e.response.batch_results[3] # e.response.batch_results[1]

\* the (1-based) positions of the vectors of another length than 91
WrongLength(features) ==
    {r \in 1..Len(features) : Len(features[r]) # EXPECTED_VECTOR_LENGTH}

C7_NonNumericRejected ==
    \A e \in PredictExchanges :
        (\E r \in 1..Len(e.features) :
            \E k \in 1..Len(e.features[r]) : e.features[r][k].kind = "text")
        => /\ e.response.status = 422
           /\ ~e.modelCalled
           /\ e.response.batch_results = <<>>

\* A batch with a single string entry in its second vector, rejected while a
\* working model is in place.
C7_Witness ==
    \E e \in PredictExchanges :
        /\ e.features = <<Zeros, OneText>>
        /\ e.model = "lr"
        /\ e.response.status = 422

\* C8: GET /health always answers 200 with status 'ok' and the configured
\* environment name, whether or not the model file exists and whatever
\* /predict calls were made before.
C8_HealthAlwaysOk ==
    \A k \in 1..Len(apiLog) :
        apiLog[k].endpoint = "health" =>
            /\ apiLog[k].response.status = 200
            /\ apiLog[k].response.health =
                  Some([status |-> "ok", env |-> environment])

\* /health asked while the model file is missing, after a failed /predict.
C8_Witness ==
    /\ Len(apiLog) = 2
    /\ apiLog[1].endpoint = "predict"
    /\ apiLog[1].response.status = 400
    /\ apiLog[2].endpoint = "health"
    /\ apiLog[2].model = "missing"

\* C10: any failure while /predict handles a validated request (model file
\* missing, unpickling error, error raised by the model) is logged and
\* answered with 400 whose detail begins 'Error processing array'; no request
\* is answered 200 with fewer batch_results than vectors.
C10_FailureIs400NeverPartial ==
    \A e \in PredictExchanges :
        /\ (ValidFeatures(e.features) /\ ~ModelWorksOn(e.model, e.features)) =>
              /\ e.response.status = 400
              /\ e.response.detail # None
              /\ e.response.detail[1].text = "Error processing array"
              /\ e.logged
              /\ e.response.batch_results = <<>>
        /\ e.response.status = 200 =>
              Len(e.response.batch_results) = Len(e.features)

\* A batch whose first two vectors convert and whose third one raises in the
\* results loop.
C10_Witness ==
    \E e \in PredictExchanges :
        /\ e.features = <<Zeros, Zeros, Ones>>
        /\ e.model = "labels12"
        /\ ResultsLoop(e.model, e.features, 1, <<>>).raised
        /\ Len(ResultsLoop(e.model, e.features, 1, <<>>).results_list) = 2
        /\ e.response.status = 400

(***************************************************************************)
(* PublicAPIBatchProcessor: claims                                         *)
(***************************************************************************)
\* The coroutine t calls session.get in this step.
IssuesGet(t) ==
    /\ t \in DOMAIN tpc'
    /\ tpc[t] \in {"start", "backoff", "sleeping"}
    /\ tpc'[t] = "connwait"

\* C1: any two HTTP GETs the processor issues are at least request_interval
\* = 60 / rate_limit_per_minute seconds apart, for every interleaving of the
\* gathered coroutines: a GET is issued no sooner than request_interval
\* after the GET issued before it.
C1_GetsSpacedByInterval ==
    [][\A t \in DOMAIN tpc :
          (IssuesGet(t) /\ lastGet # None) =>
              now - lastGet[1] >= request_interval]_vars

\* The failures _make_request reports for a GET that raised
\* asyncio.TimeoutError or aiohttp.ClientError.
RetryableFailureTexts ==
    {"Request timed out", "Client error: connection", "Client error: content type"}

\* C2: a GET that fails with aiohttp.ClientError or asyncio.TimeoutError is
\* attempted again, up to 3 attempts in total, before the failure is reported:
\* a coroutine that reports such a failure has made max_tries attempts.
C2_FailureReportedAfterRetries ==
    \A t \in DOMAIN tpc :
        (/\ tpc[t] = "done"
         /\ tresp[t][1].error # None
         /\ tresp[t][1].error[1].text \in RetryableFailureTexts)
        => attempts[t] = max_tries

\* The dict qp holds exactly the parameters sent for the tuple values: the
\* value of each named column under its parameter name, and additional_params
\* (which win over a column of the same name).
IsParamsSentFor(values, qp) ==
    LET ap == IF call.additional_params = None THEN <<>>
              ELSE call.additional_params[1]
    IN  /\ DOMAIN qp = Range(call.param_names) \cup DOMAIN ap
        /\ \A k \in 1..Len(values) :
              call.param_names[k] \notin DOMAIN ap
                  => qp[call.param_names[k]] = values[k]
        /\ \A n \in DOMAIN ap : qp[n] = ap[n]

\* fetch_data has returned for the batch batch_values.
BatchReturned == pdpc \in {"pause", "loop", "done"} /\ batch_values # <<>>

\* C3: fetch_data returns exactly one APIResponse per parameter tuple, in the
\* order of param_values, and response k carries as query_params the
\* parameters sent for tuple k, whatever order the requests completed in and
\* whether they succeeded or failed.
C3_ResponsesMatchTuplesInOrder ==
    BatchReturned =>
        /\ Len(batch_results) = Len(batch_values)
        /\ \A k \in 1..Len(batch_values) :
              /\ batch_results[k].query_params # None
              /\ IsParamsSentFor(batch_values[k], batch_results[k].query_params[1])

\* A batch of several distinct tuples with additional_params returned after
\* its requests completed out of order, one succeeding and one failing.
C3_Witness ==
    /\ BatchReturned
    /\ Len(batch_results) >= 2
    /\ reordered
    /\ call.additional_params # None
    /\ \E a, b \in 1..Len(batch_results) :
          batch_results[a].success /\ ~batch_results[b].success

\* C4: at no point during a batch are more than max_concurrent_requests HTTP
\* requests in flight, also when the batch holds more tuples than that.
C4_InFlightWithinLimit == InFlight <= cfg.max_concurrent_requests

\* A batch larger than the limit, the limit reached, a request waiting.
C4_Witness ==
    /\ pdpc = "gather"
    /\ Len(batch_values) > cfg.max_concurrent_requests
    /\ InFlight = cfg.max_concurrent_requests
    /\ \E t \in DOMAIN tpc : tpc[t] = "connwait"

\* C11: process_dataframe raises ValueError naming the first entry of
\* column_names that is not a column of the DataFrame, before any batch is
\* started and before any HTTP request is issued; with every column present
\* it does not raise.
C11_MissingColumnRaisesFirst ==
    LET absent == {k \in 1..Len(call.column_names) :
                      call.column_names[k] \notin call.df.columns}
    IN  /\ (absent # {} /\ pdpc \notin {"idle", "call"}) =>
              /\ pdpc = "raised"
              /\ raised # None
              /\ raised[1].type = "ValueError"
              /\ \E k \in absent :
                    /\ raised[1].name = call.column_names[k]
                    /\ \A m \in absent : k <= m
              /\ batch_values = <<>>
              /\ tpc = <<>>
              /\ gets = <<>>
              /\ lastGet = None
              /\ all_results = <<>>
        /\ absent = {} => raised = None

\* process_dataframe has raised for column_names with two absent columns
\* after a present one.
C11_Witness ==
    /\ pdpc = "raised"
    /\ call.column_names = <<"pubStartDate", "vendor", "cveId">>
    /\ raised = Some([type |-> "ValueError", name |-> "vendor"])

\* C12: the retries value given to the constructor is the number of retries
\* made for a failed request: a coroutine that reports a failed GET
\* (timeout or client error) has made retries attempts, or retries attempts
\* after the first one.
C12_AttemptsFollowRetries ==
    \A t \in DOMAIN tpc :
        (/\ tpc[t] = "done"
         /\ tresp[t][1].error # None
         /\ tresp[t][1].error[1].text \in RetryableFailureTexts)
        => attempts[t] \in {cfg.retries, cfg.retries + 1}

\* The tuples of the selected columns, row by row, and the rows that are the
\* first to show their combination of values.
SelectedTuples == Project(call.df, call.column_names)

FirstOccurrences ==
    {r \in 1..Len(SelectedTuples) :
        \A q \in 1..(r - 1) : SelectedTuples[q] # SelectedTuples[r]}

\* The k-th distinct combination, in the order of first occurrence.
DistinctCombination(k) ==
    SelectedTuples[CHOOSE r \in FirstOccurrences :
                      Cardinality({q \in FirstOccurrences : q < r}) = k - 1]

\* process_dataframe has passed the column check.
Batching == pdpc \in {"loop", "gather", "pause", "done"}

\* C13: process_dataframe issues exactly one request per distinct combination
\* of values in the selected columns: a repeated combination is requested
\* once, the consecutive batches partition the list of distinct combinations
\* in first-occurrence order, and the number of responses collected equals
\* the number of distinct combinations.
C13_OneRequestPerDistinctCombination ==
    Batching =>
        /\ Len(param_values) = Cardinality(FirstOccurrences)
        /\ \A k \in 1..Len(param_values) : param_values[k] = DistinctCombination(k)
        /\ pdpc = "gather" =>
              /\ Len(all_results) = i
              /\ \A t \in 1..Len(batch_values) :
                    batch_values[t] = DistinctCombination(i + t)
        /\ \A p \in DOMAIN gets :
              /\ gets[p] = 1
              /\ \E k \in 1..Cardinality(FirstOccurrences) :
                    IsParamsSentFor(DistinctCombination(k), p)
        /\ pdpc = "done" =>
              /\ Len(all_results) = Cardinality(FirstOccurrences)
              /\ Cardinality(DOMAIN gets) = Cardinality(FirstOccurrences)
              /\ \A k \in 1..Len(all_results) :
                    IsParamsSentFor(DistinctCombination(k),
                                    all_results[k].query_params[1])

\* A DataFrame with a repeated row was processed in more than one batch.
C13_Witness ==
    /\ pdpc = "done"
    /\ Len(call.df.rows) > Len(param_values)
    /\ Len(all_results) > optimal_batch_size
    /\ optimal_batch_size > 1

\* C14: every batch process_dataframe builds holds at most
\* min(batch_size, 2 * max_concurrent_requests) tuples, every batch but the
\* last holds exactly that many, and an input without rows starts no batch
\* and issues no request.
C14_BatchSizeCapped ==
    LET cap == IF call.batch_size <= 2 * cfg.max_concurrent_requests
               THEN call.batch_size ELSE 2 * cfg.max_concurrent_requests
    IN  /\ pdpc \in {"gather", "pause"} =>
              /\ Len(batch_values) >= 1
              /\ Len(batch_values) <= cap
              /\ i + Len(batch_values) < Len(param_values) =>
                    Len(batch_values) = cap
        /\ (Batching /\ call.df.rows = <<>>) =>
              /\ batch_values = <<>>
              /\ tpc = <<>>
              /\ gets = <<>>
              /\ lastGet = None

\* The last batch of a call is gathered and is shorter than the batches
\* before it, whose size the concurrency limit set.
C14_Witness ==
    /\ pdpc = "gather"
    /\ i > 0
    /\ Len(batch_values) < 2 * cfg.max_concurrent_requests
    /\ call.batch_size > 2 * cfg.max_concurrent_requests

\* C15: batches run strictly one after another: a batch is started only when
\* every response of the batches before it has been collected, no request is
\* pending outside a gather, a pause of one second lies between the end of a
\* batch and the start of the next, and no pause follows the last batch.
C15_BatchesSequentialWithPause ==
    [][/\ (pdpc = "gather" /\ pdpc' \notin {"gather", "raised"}) =>
              IF i + Len(batch_values) < Len(param_values)
              THEN pdpc' = "pause" /\ pauseUntil' = now + 1
              ELSE pdpc' = "loop" /\ i' >= Len(param_values)
       /\ (pdpc = "pause" /\ pdpc' # "pause") =>
              /\ now >= pauseUntil
              /\ pdpc' = "loop"
       /\ (pdpc # "gather" /\ pdpc' = "gather") =>
              /\ tpc = <<>>
              /\ Len(all_results) = i
              /\ Cardinality(DOMAIN gets) <= i
              /\ i > 0 => now >= pauseUntil /\ pauseUntil > StartTime
      ]_vars

\* A request of the second batch is in flight.
C15_Witness ==
    /\ pdpc = "gather"
    /\ i > 0
    /\ Len(all_results) = i
    /\ \E t \in DOMAIN tpc : tpc[t] = "inflight"

\* C16: _make_request never propagates an exception: a timeout, a client
\* error and any other exception each become an APIResponse with
\* success=False, data=None and a non-empty error, so nothing but the column
\* check makes process_dataframe raise and every batch yields one response
\* per tuple.
C16_NoExceptionLeavesMakeRequest ==
    /\ raised # None => raised[1].type = "ValueError"
    /\ \A t \in DOMAIN tparams : \A reply \in Replies :
          reply.kind \in {"timeout", "client_error", "exception"} =>
              LET r == MakeRequestBody(tparams[t], reply) IN
                  /\ r.kind = "return"
                  /\ ~r.resp.success
                  /\ r.resp.data = None
                  /\ r.resp.error # None
                  /\ r.resp.error[1].text # ""
    /\ \A t \in DOMAIN tresp :
          (tresp[t] # None /\ ~tresp[t][1].success) =>
              /\ tresp[t][1].data = None
              /\ tresp[t][1].error # None
    /\ BatchReturned => Len(batch_results) = Len(batch_values)

\* A batch returned in full although one request ended in an exception that
\* is neither a timeout nor a client error, and another succeeded.
C16_Witness ==
    /\ BatchReturned
    /\ Len(batch_results) >= 2
    /\ \E a, b \in 1..Len(batch_results) :
          /\ batch_results[a].error = Some(ErrorText("Unexpected error", None))
          /\ batch_results[b].success

\* The statuses and endings the body of _make_request is examined for.
ProbedReplies ==
    Replies \cup
    { [kind |-> "response", status |-> st, json |-> js, body |-> "page"] :
          st \in {199, 200, 204, 299, 300, 404, 500}, js \in BOOLEAN }

\* C17: an APIResponse has success=True exactly when the HTTP status is in
\* 200..299 and the body was parsed as JSON; a response with another status
\* has success=False, data=None, status_code equal to the status and an
\* error starting 'HTTP Error <status>'; a response built from an exception
\* has status_code None.
C17_SuccessIffOkStatusAndJson ==
    /\ \A t \in DOMAIN tparams : \A reply \in ProbedReplies :
          LET r == MakeRequestBody(tparams[t], reply).resp
              ok == reply.status \in 200..299
          IN  /\ r.success <=> (reply.kind = "response" /\ ok /\ reply.json)
              /\ r.success => r.data # None /\ r.status_code = Some(reply.status)
              /\ (reply.kind = "response" /\ ~ok) =>
                    /\ ~r.success
                    /\ r.data = None
                    /\ r.status_code = Some(reply.status)
                    /\ r.error = Some(ErrorText("HTTP Error", Some(reply.status)))
              /\ (reply.kind # "response" \/ (ok /\ ~reply.json)) =>
                    /\ r.status_code = None
                    /\ ~r.success
    /\ \A t \in DOMAIN tresp :
          tresp[t] # None =>
              LET r == tresp[t][1] IN
                  /\ r.success =>
                        r.status_code # None /\ r.status_code[1] \in 200..299
                  /\ (r.status_code # None /\ r.status_code[1] \notin 200..299) =>
                        /\ ~r.success
                        /\ r.data = None
                        /\ r.error = Some(ErrorText("HTTP Error", r.status_code))

\* Coroutines of one batch have returned a success, an HTTP error and a
\* response built from an exception.
C17_Witness ==
    \E a, b, c \in DOMAIN tresp :
        /\ tresp[a] # None /\ tresp[a][1].success
        /\ tresp[b] # None /\ tresp[b][1].status_code = Some(404)
        /\ tresp[c] # None /\ tresp[c][1].error = Some(ErrorText("Request timed out", None))

\* Row k of the returned DataFrame is the row of response k: its query_<name>
\* columns hold the named query parameters, the keys of a successful body
\* are columns, a failed row holds the error, and a column named like a
\* query parameter comes from the body alone.
RowCarriesResponse(row, r) ==
    /\ {"success", "status_code"} \subseteq DOMAIN row
    /\ \A n \in Range(call.param_names) :
          n \in DOMAIN r.query_params[1] =>
              /\ ("query_" \o n) \in DOMAIN row
              /\ row["query_" \o n] = r.query_params[1][n]
    /\ r.success =>
          \A key \in DOMAIN r.data[1] :
              key \in DOMAIN row /\ row[key] = r.data[1][key]
    /\ ~r.success => "error" \in DOMAIN row /\ row["error"] = r.error
    /\ \A n \in DOMAIN r.query_params[1] :
          n \in DOMAIN row => r.success /\ n \in DOMAIN r.data[1]

\* C18 as stated: _default_result_handler produces one row per APIResponse in
\* order, each row's success and status_code columns equal the response's
\* success and status_code, a successful row carries the top-level keys of
\* the body, a failed row the error, and the query parameters appear only as
\* query_<name>.
C18_RowPerResponse ==
    pdpc = "done" =>
        /\ Len(returned) = Len(all_results)
        /\ \A k \in 1..Len(all_results) :
              /\ RowCarriesResponse(returned[k], all_results[k])
              /\ returned[k]["success"] = all_results[k].success
              /\ returned[k]["status_code"] = all_results[k].status_code

\* C18 with the condition it needs: the success and status_code columns equal
\* the response's success and status_code unless the body of a successful
\* response has a top-level key of that name, which then is the column.
C18_RowPerResponseUnlessBodyKey ==
    pdpc = "done" =>
        /\ Len(returned) = Len(all_results)
        /\ \A k \in 1..Len(all_results) :
              LET r == all_results[k]
                  fromBody(c) == r.success /\ c \in DOMAIN r.data[1]
              IN  /\ RowCarriesResponse(returned[k], r)
                  /\ \A c \in {"success", "status_code"} :
                        returned[k][c] =
                            IF fromBody(c) THEN r.data[1][c] ELSE r[c]

\* process_dataframe returned rows for a success and a failure.
C18_Witness ==
    /\ pdpc = "done"
    /\ Len(returned) >= 2
    /\ \E a, b \in 1..Len(returned) :
          /\ all_results[a].success
          /\ "totalResults" \in DOMAIN returned[a]
          /\ "query_pubStartDate" \in DOMAIN returned[a]
          /\ ~all_results[b].success
          /\ "error" \in DOMAIN returned[b]

(***************************************************************************)
(* Ingestion pipelines: claims                                             *)
(***************************************************************************)
\* The number a string of decimal digits denotes.
RECURSIVE DigitsValue(_)
DigitsValue(digits) ==
    IF digits = <<>> THEN 0
    ELSE 10 * DigitsValue(SubSeq(digits, 1, Len(digits) - 1)) + digits[Len(digits)]

\* The last day of a month of the Gregorian calendar.
LastDayOfMonth(year, month) ==
    IF month \in {4, 6, 9, 11} THEN 30
    ELSE IF month # 2 THEN 31
    ELSE IF year % 400 = 0 THEN 29
    ELSE IF year % 100 = 0 THEN 28
    ELSE IF year % 4 = 0 THEN 29
    ELSE 28

\* The text is yyyy-mm-ddT<clock> for the given day: a two-digit month and a
\* two-digit day.
IsDateTime(text, year, month, day, clock) ==
    /\ DigitsValue(text.year) = year
    /\ Len(text.month) = 2 /\ DigitsValue(text.month) = month
    /\ Len(text.day) = 2 /\ DigitsValue(text.day) = day
    /\ text.clock = clock

RECURSIVE ResponsesOfSucceeded(_)
ResponsesOfSucceeded(outcomes) ==
    IF outcomes = <<>> THEN <<>>
    ELSE (IF Head(outcomes).failed THEN <<>> ELSE Head(outcomes).value[1])
         \o ResponsesOfSucceeded(Tail(outcomes))

\* C20: in ExtractCVE.extract, when a whole batch fails (an exception while
\* opening the session or gathering), the error is logged, the batch
\* contributes no rows, every later batch is still processed, and the result
\* holds the rows of every batch that succeeded, in batch order.
C20_FailedBatchSkipped ==
    /\ ex.pc # "raised"
    /\ \A k \in 1..Len(ex.outcomes) :
          /\ ex.outcomes[k].batch_params =
                Slice(ex.params, (k - 1) * ex.batch_size, k * ex.batch_size)
          /\ ex.outcomes[k].failed => k \in Range(ex.log)
          /\ ~ex.outcomes[k].failed =>
                /\ Len(ex.outcomes[k].value[1]) = Len(ex.outcomes[k].batch_params)
                /\ \A j \in 1..Len(ex.outcomes[k].batch_params) :
                      ex.outcomes[k].value[1][j].query_params =
                          Some(ex.outcomes[k].batch_params[j])
    /\ ex.results = ResponsesOfSucceeded(ex.outcomes)
    /\ ex.pc = "done" =>
          /\ Len(ex.outcomes) * ex.batch_size >= Len(ex.params)
          /\ (Len(ex.outcomes) - 1) * ex.batch_size < Len(ex.params) \/ ex.params = <<>>
          /\ ex.returned = result_handler(ResponsesOfSucceeded(ex.outcomes))
          /\ Len(ex.returned) = Len(ResponsesOfSucceeded(ex.outcomes))

\* extract returned after its second batch of four failed in the session
\* and the others succeeded.
C20_Witness ==
    /\ ex.pc = "done"
    /\ Len(ex.outcomes) = 4
    /\ ex.outcomes[2].failed
    /\ ex.outcomes[2].value = None
    /\ \A k \in {1, 3, 4} : ~ex.outcomes[k].failed
    /\ Len(ex.returned) = 26

(***************************************************************************)
(* CVE processing: process_cve_batches, process_batch, merge_batch_results *)
(* (src/project/pdpipeline/process_cve.py)                                 *)
(***************************************************************************)
\* One entry of a page's "vulnerabilities" list: the identifier, the CWE
\* identifiers of its weaknesses and whether it has a CVSS v2 metric.
Cve(id, cwes, v2) == [cve_id |-> id, cwes |-> cwes, v2 |-> v2]

CveA == Cve("CVE-1", <<"CWE-79">>, TRUE)

CveB == Cve("CVE-2", <<>>, FALSE)

CveC == Cve("CVE-3", <<"CWE-20", "CWE-20">>, FALSE)

\* The pages of the input DataFrame: each row holds a list of entries.
ProcessDfs ==
    { <<>>,
      << <<CveB>> >>,
      << <<CveA, CveB>>, <<CveC>> >>,
      << <<CveA, CveB>>, <<CveA, CveC>> >>,
      << <<CveB>>, <<CveC>>, <<CveB>> >> }

ProcessBatchSizes == {1, 2, 1000}

PROCESSED_DATA_DIR == "processed"

ProcessOutputPaths == {PROCESSED_DATA_DIR, "staging"}

\* n_workers: 0 stands for None (sequential), 4 is what main passes.
ProcessWorkers == {0, 4}

MERGED_DATA_DIR == "merged"

TableNames == {"main", "weaknesses", "cvss_v2"}

\* The DataFrames of one entry; main always has exactly one row.
process_cve_data(cve_data) ==
    [ main |-> << [cve_id |-> cve_data.cve_id] >>,
      weaknesses |->
          [k \in 1..Len(cve_data.cwes) |->
              [cve_id |-> cve_data.cve_id, cwe_id |-> cve_data.cwes[k]]],
      cvss_v2 |->
          IF cve_data.v2
          THEN << [cve_id |-> cve_data.cve_id, base_score |-> "5.0"] >>
          ELSE <<>> ]

\* The rows of the pages' lists, in order.
RECURSIVE ExtendAll(_)
ExtendAll(lists) ==
    IF lists = <<>> THEN <<>> ELSE Head(lists) \o ExtendAll(Tail(lists))

\* The batches: one per step of the range, then the slice appended after
\* the loop.
SplitBatches(list, size) ==
    Append([k \in 1..((Len(list) + size - 1) \div size) |->
               Slice(list, (k - 1) * size, (k - 1) * size + size)],
           Slice(list, Len(list) - (Len(list) \div size), Len(list)))

\* The name of a batch file as the parts formatted into it.
BatchFileNameNoIndex(key, batch_idx) == <<key, "_batch", ".csv">>

BatchFileName(key, batch_idx) == <<key, "_batch", ToString(batch_idx), ".csv">>

CombinedFileName(group) == <<group, "_combined", "1", ".csv">>

Path(dir, name) == [dir |-> dir, name |-> name]

\* The tables of a batch, concatenated over its entries; none for an empty
\* batch.
BatchTable(batch, name) ==
    ExtendAll([k \in 1..Len(batch) |-> process_cve_data(batch[k])[name]])

BatchTableNames(batch) == IF batch = <<>> THEN {} ELSE TableNames

\* What process_batch leaves in the file system: one file per table, written
\* once more.
WriteFile(files, path, rows) ==
    [p \in DOMAIN files \cup {path} |->
        IF p = path
        THEN [rows |-> rows,
              writes |-> IF path \in DOMAIN files THEN files[path].writes + 1 ELSE 1]
        ELSE files[p]]

process_batch(files, batch, output_path, batch_idx) ==
    [p \in DOMAIN files
           \cup {Path(output_path, BatchFileName(t, batch_idx)) : t \in BatchTableNames(batch)} |->
        IF \E t \in BatchTableNames(batch) : p = Path(output_path, BatchFileName(t, batch_idx))
        THEN LET t == CHOOSE t \in BatchTableNames(batch) :
                          p = Path(output_path, BatchFileName(t, batch_idx))
             IN  WriteFile(files, p, BatchTable(batch, t))[p]
        ELSE files[p]]

\* file.split("_batch")[0]: the parts before the first "_batch".
RECURSIVE JoinParts(_)
JoinParts(parts) ==
    IF parts = <<>> THEN "" ELSE Head(parts) \o JoinParts(Tail(parts))

SplitFirstChunk(name, sep) ==
    LET at == {k \in 1..Len(name) : name[k] = sep}
    IN  IF at = {} THEN JoinParts(name)
        ELSE JoinParts(SubSeq(name, 1, (CHOOSE k \in at : \A j \in at : k <= j) - 1))

EndsWithCsv(name) == Len(name) > 0 /\ name[Len(name)] = ".csv"

\* The .csv files of a directory.
ListCsv(files, dir) == {p \in DOMAIN files : p.dir = dir /\ EndsWithCsv(p.name)}

\* csv_groups: for each first chunk, the files that have it.
CsvGroups(files, dir) ==
    [g \in {SplitFirstChunk(p.name, "_batch") : p \in ListCsv(files, dir)} |->
        {p \in ListCsv(files, dir) : SplitFirstChunk(p.name, "_batch") = g}]

\* read_csv raises for a file written from a DataFrame without columns.
ReadCsvRaises(content) == content.rows = <<>>

\* The orders in which a directory listing can return a set of files.
Orders(paths) ==
    {o \in [1..Cardinality(paths) -> paths] :
        \A a, b \in 1..Cardinality(paths) : o[a] = o[b] => a = b}

\* The frames read from the files of a group, unreadable ones skipped.
ReadAll(files, order) ==
    ExtendAll([k \in 1..Len(order) |-> files[order[k]].rows])

AnyReadable(files, paths) == \E p \in paths : ~ReadCsvRaises(files[p])

\* drop_duplicates(subset=["cve_id"]): the first row of each cve_id.
RECURSIVE DropDuplicatesByCveId(_, _)
DropDuplicatesByCveId(seen, rest) ==
    IF rest = <<>> THEN seen
    ELSE IF \E k \in 1..Len(seen) : seen[k].cve_id = Head(rest).cve_id
         THEN DropDuplicatesByCveId(seen, Tail(rest))
         ELSE DropDuplicatesByCveId(Append(seen, Head(rest)), Tail(rest))

\* The combined table of a group, every row kept.
CombineGroupKeepAll(group, rows) == rows

CombineGroup(group, rows) ==
    IF group = "main" THEN DropDuplicatesByCveId(<<>>, rows)
    ELSE DropDuplicates(rows)

ProcessInit ==
    \E df \in ProcessDfs, size \in ProcessBatchSizes,
       path \in ProcessOutputPaths, workers \in ProcessWorkers :
        proc = [pc |-> "call", df |-> df, batch_size |-> size,
                output_path |-> path, n_workers |-> workers,
                cve_list |-> <<>>, batches |-> <<>>, todo |-> {}, failed |-> {},
                files |-> <<>>, csv_groups |-> <<>>, merged |-> {}]

\* process_cve_batches up to the start of the workers: the entries are
\* extracted and split. Batch k of the list has index k - 1.
SplitCves ==
    /\ proc.pc = "call"
    /\ proc' = [proc EXCEPT
           !.pc = "workers",
           !.cve_list = ExtendAll(proc.df),
           !.batches = SplitBatches(ExtendAll(proc.df), proc.batch_size),
           !.todo = 0..(Len(SplitBatches(ExtendAll(proc.df), proc.batch_size)) - 1)]
    /\ UNCHANGED <<batchVars, apiVars, uiVars, dates, ex, feat, bq, rendered>>

\* The directory a batch is written into: the sequential loop passes
\* output_path, the pool submits process_batch without it.
BatchDir(path, workers) == IF workers > 1 THEN PROCESSED_DATA_DIR ELSE path

\* One call of process_batch: in order in the sequential loop, in any order
\* in the pool. A failing call is logged and writes nothing.
RunBatch(idx, ok) ==
    /\ proc.pc = "workers"
    /\ idx \in proc.todo
    /\ proc.n_workers > 1 \/ \A other \in proc.todo : idx <= other
    /\ proc' = [proc EXCEPT
           !.todo = proc.todo \ {idx},
           !.failed = IF ok THEN proc.failed ELSE proc.failed \cup {idx},
           !.files = IF ok
                     THEN process_batch(proc.files, proc.batches[idx + 1],
                                        BatchDir(proc.output_path, proc.n_workers), idx)
                     ELSE proc.files]
    /\ UNCHANGED <<batchVars, apiVars, uiVars, dates, ex, feat, bq, rendered>>

ProcessReturn ==
    /\ proc.pc = "workers"
    /\ proc.todo = {}
    /\ proc' = [proc EXCEPT !.pc = "processed"]
    /\ UNCHANGED <<batchVars, apiVars, uiVars, dates, ex, feat, bq, rendered>>

\* merge_batch_results(process_path, output_path) as main calls it: the
\* files of the input directory are listed and grouped.
MergeStart ==
    /\ proc.pc = "processed"
    /\ proc' = [proc EXCEPT
           !.pc = "merging",
           !.csv_groups = CsvGroups(proc.files, proc.output_path)]
    /\ UNCHANGED <<batchVars, apiVars, uiVars, dates, ex, feat, bq, rendered>>

\* One iteration of the loop over the groups, in the order of the listing.
\* A group none of whose files can be read leaves combined_df unbound, and
\* the del statement raises.
MergeGroup(group) ==
    /\ proc.pc = "merging"
    /\ group \in DOMAIN proc.csv_groups \ proc.merged
    /\ \E order \in Orders(proc.csv_groups[group]) : proc' =
          IF AnyReadable(proc.files, proc.csv_groups[group])
          THEN [proc EXCEPT
                   !.merged = proc.merged \cup {group},
                   !.files = WriteFile(proc.files,
                                 Path(MERGED_DATA_DIR, CombinedFileName(group)),
                                 CombineGroup(group, ReadAll(proc.files, order)))]
          ELSE [proc EXCEPT !.pc = "merge_raised"]
    /\ UNCHANGED <<batchVars, apiVars, uiVars, dates, ex, feat, bq, rendered>>

MergeReturn ==
    /\ proc.pc = "merging"
    /\ proc.merged = DOMAIN proc.csv_groups
    /\ proc' = [proc EXCEPT !.pc = "merged"]
    /\ UNCHANGED <<batchVars, apiVars, uiVars, dates, ex, feat, bq, rendered>>

ProcessNext ==
    \/ SplitCves
    \/ \E idx \in 0..8, ok \in BOOLEAN : RunBatch(idx, ok)
    \/ ProcessReturn
    \/ MergeStart
    \/ \E group \in TableNames : MergeGroup(group)
    \/ MergeReturn

InitProcess ==
    ProcessInit /\ DatesIdle /\ ExtractIdle /\ FeatIdle /\ BqIdle /\ RenderIdle
    /\ BatchIdle /\ ApiIdle /\ UiIdle

SpecProcess == InitProcess /\ [][ProcessNext]_vars

(***************************************************************************)
(* Claims about the CVE processing                                         *)
(***************************************************************************)
ProcessSplitDone == proc.pc \notin {"idle", "call"}

\* C21: the batches process_cve_batches builds partition the extracted list:
\* concatenated in order they give the list back (so every entry is in
\* exactly one batch) and no batch has more than batch_size entries.
C21_BatchesPartitionList ==
    ProcessSplitDone =>
        /\ ExtendAll(proc.batches) = proc.cve_list
        /\ \A k \in 1..Len(proc.batches) : Len(proc.batches[k]) <= proc.batch_size

IsBatchFile(p) == Len(p.name) = 4 /\ p.name[2] = "_batch"

BatchFiles == {p \in DOMAIN proc.files : IsBatchFile(p)}

\* The batches whose call of process_batch has ended without an error.
BatchesWritten ==
    {idx \in 0..(Len(proc.batches) - 1) : idx \notin proc.todo \cup proc.failed}

\* C23: the batch files are written into the output_path given, in the
\* sequential loop and in the pool alike, each with its batch's index in
\* its name.
C23_BatchFilesInOutputPath ==
    ProcessSplitDone =>
        /\ \A p \in BatchFiles : p.dir = proc.output_path
        /\ \A idx \in BatchesWritten : \A t \in BatchTableNames(proc.batches[idx + 1]) :
               Path(proc.output_path, BatchFileName(t, idx)) \in BatchFiles

\* C24: the file of table T of batch i is named T_batch<i>.csv; indices are
\* unique, so every batch file is written once, by one batch, and keeps that
\* batch's rows; merge_batch_results puts every batch file of its input
\* directory into exactly one group, the group of the file's table.
C24_OneFilePerTableAndBatch ==
    ProcessSplitDone =>
        /\ \A p \in BatchFiles :
               /\ proc.files[p].writes = 1
               /\ \E idx \in BatchesWritten : \E t \in TableNames :
                      /\ p.name = <<t, "_batch", ToString(idx), ".csv">>
                      /\ proc.files[p].rows = BatchTable(proc.batches[idx + 1], t)
                      /\ \A idx2 \in BatchesWritten : \A t2 \in TableNames :
                             p.name = BatchFileName(t2, idx2) => idx2 = idx /\ t2 = t
        /\ \A idx \in BatchesWritten : \A t \in BatchTableNames(proc.batches[idx + 1]) :
               \E p \in BatchFiles : p.name = BatchFileName(t, idx)
        /\ proc.pc \in {"merging", "merged", "merge_raised"} =>
               \A p \in BatchFiles : p.dir = proc.output_path =>
                   /\ p.name[1] \in DOMAIN proc.csv_groups
                   /\ \A g \in DOMAIN proc.csv_groups :
                          p \in proc.csv_groups[g] <=> g = p.name[1]

\* Two workers of the pool have written their batches' files and the merge
\* has grouped them.
C24_Witness ==
    /\ proc.pc = "merged"
    /\ proc.n_workers > 1
    /\ Cardinality(BatchesWritten) >= 3
    /\ \E g \in DOMAIN proc.csv_groups : Cardinality(proc.csv_groups[g]) >= 3

CombinedRows(group) ==
    IF Path(MERGED_DATA_DIR, CombinedFileName(group)) \in DOMAIN proc.files
    THEN proc.files[Path(MERGED_DATA_DIR, CombinedFileName(group))].rows
    ELSE <<>>

NoRepeatedRow(rows) == \A a, b \in 1..Len(rows) : rows[a] = rows[b] => a = b

\* One row per distinct cve_id of the input, and no repeated row elsewhere.
CombinedTablesDeduplicated ==
    /\ {CombinedRows("main")[k].cve_id : k \in 1..Len(CombinedRows("main"))}
           = {proc.cve_list[k].cve_id : k \in 1..Len(proc.cve_list)}
    /\ \A a, b \in 1..Len(CombinedRows("main")) :
           CombinedRows("main")[a].cve_id = CombinedRows("main")[b].cve_id => a = b
    /\ \A t \in TableNames \ {"main"} : NoRepeatedRow(CombinedRows(t))

C22_MergeRaisesOnUnreadableGroup ==
    proc.pc = "merge_raised" =>
        \E g \in DOMAIN proc.csv_groups : ~AnyReadable(proc.files, proc.csv_groups[g])

NaN == "NaN"

\* main_combined1.csv: one row per cve_id, as merge_batch_results leaves it.
MainTables ==
    { << [cve_id |-> "CVE-1"] >>,
      << [cve_id |-> "CVE-1"], [cve_id |-> "CVE-2"] >>,
      << [cve_id |-> "CVE-3"], [cve_id |-> "CVE-1"] >>,
      << [cve_id |-> "CVE-1"], [cve_id |-> "CVE-2"], [cve_id |-> "CVE-3"] >> }

\* The cveID column of the KEV catalogue.
KevColumns ==
    { <<>>, <<"CVE-1">>, <<"CVE-2", "CVE-9">>, <<"CVE-3", "CVE-1", "CVE-3">> }

AffectedTables ==
    { << [cve_id |-> "CVE-9", vendor |-> "z"] >>,
      << [cve_id |-> "CVE-1", vendor |-> "a"], [cve_id |-> "CVE-1", vendor |-> "b"] >>,
      << [cve_id |-> "CVE-1", vendor |-> "a"], [cve_id |-> "CVE-2", vendor |-> "a"],
         [cve_id |-> "CVE-3", vendor |-> "c"] >> }

CvssV3Tables ==
    { << [cve_id |-> "CVE-1", base_score |-> "9.8"] >>,
      << [cve_id |-> "CVE-1", base_score |-> "9.8"], [cve_id |-> "CVE-2", base_score |-> "5.3"],
         [cve_id |-> "CVE-3", base_score |-> "7.5"] >> }

WeaknessTables ==
    { << [cve_id |-> "CVE-2", cwe_id |-> "CWE-79"] >>,
      << [cve_id |-> "CVE-1", cwe_id |-> "CWE-79"], [cve_id |-> "CVE-2", cwe_id |-> "CWE-20"],
         [cve_id |-> "CVE-3", cwe_id |-> "CWE-20"], [cve_id |-> "CVE-3", cwe_id |-> "CWE-22"] >> }

\* isin(kev["cveID"]).astype(int) for one cve_id, every row labelled 1.
ExploitedAlways(cve_id, kev) == 1

\* isin(kev["cveID"]).astype(int) for one cve_id.
Exploited(cve_id, kev) == IF cve_id \in Range(kev) THEN 1 ELSE 0

LabelExploited(main, kev) ==
    [k \in 1..Len(main) |->
        [cve_id |-> main[k].cve_id, exploited |-> Exploited(main[k].cve_id, kev)]]

\* The rows of the right table with the key of a left row, in order.
RECURSIVE Matching(_, _)
Matching(right, cve_id) ==
    IF right = <<>> THEN <<>>
    ELSE IF Head(right).cve_id = cve_id
         THEN <<Head(right)>> \o Matching(Tail(right), cve_id)
         ELSE Matching(Tail(right), cve_id)

\* A left row with the column of a right row, or NaN without one.
Joined(l, r, column) ==
    [c \in DOMAIN l \cup {column} |-> IF c \in DOMAIN l THEN l[c] ELSE r[column]]

\* pd.merge(left, right, on="cve_id", how="left"): every left row, in
\* order, once per matching right row, or once with NaN.
LeftMerge(left, right, column) ==
    ExtendAll([k \in 1..Len(left) |->
        IF Matching(right, left[k].cve_id) = <<>>
        THEN << Joined(left[k], [c \in {column} |-> NaN], column) >>
        ELSE [j \in 1..Len(Matching(right, left[k].cve_id)) |->
                 Joined(left[k], Matching(right, left[k].cve_id)[j], column)]])

\* A missing value in a row; the integer column exploited never has one.
HasNa(row) == \E c \in DOMAIN row \ {"exploited"} : row[c] = NaN

\* dropna: the rows without a missing value, in order.
RECURSIVE DropNa(_)
DropNa(rows) ==
    IF rows = <<>> THEN <<>>
    ELSE IF HasNa(Head(rows)) THEN DropNa(Tail(rows))
    ELSE <<Head(rows)>> \o DropNa(Tail(rows))

FeatInit ==
    \E main \in MainTables, kev \in KevColumns, affected \in AffectedTables,
       cvss_v3 \in CvssV3Tables, weakness \in WeaknessTables :
        feat = [pc |-> "read", main |-> main, kev |-> kev, affected |-> affected,
                cvss_v3 |-> cvss_v3, weakness |-> weakness]

FeatLabel ==
    /\ feat.pc = "read"
    /\ feat' = [feat EXCEPT !.pc = "labelled",
                            !.main = LabelExploited(feat.main, feat.kev)]
    /\ UNCHANGED <<batchVars, apiVars, uiVars, dates, ex, proc, bq, rendered>>

FeatMergeAffected ==
    /\ feat.pc = "labelled"
    /\ feat' = [feat EXCEPT !.pc = "affected",
                            !.main = LeftMerge(feat.main, feat.affected, "vendor")]
    /\ UNCHANGED <<batchVars, apiVars, uiVars, dates, ex, proc, bq, rendered>>

FeatMergeCvss ==
    /\ feat.pc = "affected"
    /\ feat' = [feat EXCEPT !.pc = "cvss_v3",
                            !.main = LeftMerge(feat.main, feat.cvss_v3, "base_score")]
    /\ UNCHANGED <<batchVars, apiVars, uiVars, dates, ex, proc, bq, rendered>>

FeatMergeWeakness ==
    /\ feat.pc = "cvss_v3"
    /\ feat' = [feat EXCEPT !.pc = "weakness",
                            !.main = LeftMerge(feat.main, feat.weakness, "cwe_id")]
    /\ UNCHANGED <<batchVars, apiVars, uiVars, dates, ex, proc, bq, rendered>>

\* The columns are dropped, the rows with a missing value are dropped and
\* Main1.csv is written.
FeatSave ==
    /\ feat.pc = "weakness"
    /\ feat' = [feat EXCEPT !.pc = "saved", !.main = DropNa(feat.main)]
    /\ UNCHANGED <<batchVars, apiVars, uiVars, dates, ex, proc, bq, rendered>>

FeatNext ==
    \/ FeatLabel
    \/ FeatMergeAffected
    \/ FeatMergeCvss
    \/ FeatMergeWeakness
    \/ FeatSave

InitFeat ==
    FeatInit /\ DatesIdle /\ ExtractIdle /\ ProcIdle /\ BqIdle /\ RenderIdle
    /\ BatchIdle /\ ApiIdle /\ UiIdle

SpecFeat == InitFeat /\ [][FeatNext]_vars

FeatLabelled == feat.pc \in {"labelled", "affected", "cvss_v3", "weakness", "saved"}

\* The label of every row agrees with the KEV cveID column.
LabelsFollowKev ==
    \A k \in 1..Len(feat.main) :
        /\ feat.main[k].exploited \in {0, 1}
        /\ feat.main[k].exploited = 1
               <=> \E j \in 1..Len(feat.kev) : feat.kev[j] = feat.main[k].cve_id

\* The pairs of cve_id and label of a table.
LabelPairs(rows) ==
    {[cve_id |-> rows[k].cve_id, exploited |-> rows[k].exploited] : k \in 1..Len(rows)}

\* C25: in the feature table the exploited column is 1 exactly for the rows
\* whose cve_id occurs in the KEV cveID column and 0 for every other row,
\* and each of the later left merges with the affected products, CVSS v3
\* and weakness tables leaves every cve_id with the label it had.
C25_ExploitedIffInKev ==
    /\ [](FeatLabelled => LabelsFollowKev)
    /\ [][feat.pc \in {"labelled", "affected", "cvss_v3"}
              => LabelPairs(feat'.main) = LabelPairs(feat.main)]_vars

\* The three merges are done on a table with both labels, and a merge has
\* repeated a labelled row.
C25_Witness ==
    /\ feat.pc = "weakness"
    /\ \E a, b \in 1..Len(feat.main) :
           feat.main[a].exploited = 1 /\ feat.main[b].exploited = 0
    /\ \E a, b \in 1..Len(feat.main) :
           a # b /\ feat.main[a].cve_id = feat.main[b].cve_id
    /\ \E a \in 1..Len(feat.main) : HasNa(feat.main[a])

(***************************************************************************)
(* Claims about the front end's validation and rendering                   *)
(***************************************************************************)
\* The vectors of a text whose features value is a non-empty list.
TypedItems(text) ==
    IF text.wellFormed /\ text.top = "object" /\ text.features # None
       /\ text.features[1].isList
    THEN text.features[1].items
    ELSE <<>>

\* A vector the payload is rejected for: not a list, not 91 long, or with an
\* entry float() does not take.
Offending(item) ==
    \/ ~item.isList
    \/ Len(item.entries) # 91
    \/ \E k \in 1..Len(item.entries) :
           item.entries[k].kind \in {"text", "null"}

\* The text is not a JSON object, or features is missing, not a list or
\* empty, or some vector is offending.
Rejected(text) ==
    \/ ~text.wellFormed
    \/ text.top # "object"
    \/ text.features = None
    \/ ~text.features[1].isList
    \/ TypedItems(text) = <<>>
    \/ \E r \in 1..Len(TypedItems(text)) : Offending(TypedItems(text)[r])

\* The first offending vector is a list of the wrong length, at index idx.
FirstOffendingHasWrongLength(text, idx) ==
    /\ idx + 1 \in 1..Len(TypedItems(text))
    /\ \A r \in 1..idx : ~Offending(TypedItems(text)[r])
    /\ TypedItems(text)[idx + 1].isList
    /\ Len(TypedItems(text)[idx + 1].entries) # 91

\* C26: validate_payload raises ValueError and returns nothing exactly when
\* the text is not a JSON object, features is missing, not a list or empty,
\* a vector is not a list, has a length other than 91 (the message names the
\* first offending index and its length) or holds a value float() rejects;
\* otherwise it returns the same vectors in order, every entry a float.
\* "Send to /predict" posts exactly what it returns and posts nothing when
\* it raises.
C26_ValidatePayloadRejectsOrCleans ==
    LET v == validate_payload(payload_text)
        items == TypedItems(payload_text)
    IN  /\ v.raised <=> Rejected(payload_text)
        /\ v.raised => v.payload = <<>> /\ v.error.text # ""
        /\ \A idx \in 0..(Len(items) - 1) :
               FirstOffendingHasWrongLength(payload_text, idx) =>
                   /\ v.error.text = "Vector has length"
                   /\ v.error.index = Some(idx)
                   /\ v.error.length = Some(Len(items[idx + 1].entries))
        /\ ~v.raised =>
               /\ Len(v.payload) = Len(items)
               /\ \A r \in 1..Len(items) :
                      /\ Len(v.payload[r]) = Len(items[r].entries)
                      /\ \A k \in 1..Len(items[r].entries) :
                             /\ v.payload[r][k].kind = "number"
                             /\ v.payload[r][k].val = items[r].entries[k].val
        /\ (lastClick # None /\ lastClick[1].source = "raw" /\ api_url # "") =>
               IF v.raised THEN lastClick[1].posted = None
               ELSE lastClick[1].posted = Some(v.payload)

\* A payload whose second vector is too short has been sent and rejected.
C26_Witness ==
    /\ lastClick # None
    /\ lastClick[1].source = "raw"
    /\ api_url # ""
    /\ lastClick[1].posted = None
    /\ FirstOffendingHasWrongLength(payload_text, 1)
    /\ validate_payload(payload_text).error.index = Some(1)

\* The label, the flag and the badge of a rendered item follow its
\* predicted_class, its probability and the threshold.
LabelAndFlagFollowPrediction(k) ==
    LET r == rendered[1].results[k]
        high == /\ r.predicted_class = Some(1)
                /\ r.probability # None
                /\ r.probability[1] >= rendered[1].risk_threshold
    IN  /\ rendered[1].table[k].label = "Likely Exploited" <=> r.predicted_class = Some(1)
        /\ rendered[1].table[k].label \in {"Likely Exploited", "Not Exploited"}
        /\ rendered[1].table[k].risk_flag = "High" <=> high
        /\ rendered[1].table[k].risk_flag \in {"High", "Low"}
        /\ high => k \in DOMAIN rendered[1].badges /\ rendered[1].badges[k].color = "red"

\* The form path and the raw JSON path agree on the label, the flag and the
\* badge colours of the response rendered.
PathsAgree ==
    LET form == render_results(rendered[1].results, rendered[1].risk_threshold)
        raw == render_raw(rendered[1].results, rendered[1].risk_threshold)
        other == IF rendered[1].path = "form" THEN raw ELSE form
    IN  /\ \A k \in 1..Len(rendered[1].results) :
               /\ rendered[1].table[k].label = other.table[k].label
               /\ rendered[1].table[k].risk_flag = other.table[k].risk_flag
        /\ DOMAIN rendered[1].badges = DOMAIN other.badges
        /\ \A k \in DOMAIN rendered[1].badges :
               rendered[1].badges[k].color = other.badges[k].color

\* C27 as stated: an item is 'Likely Exploited' exactly when predicted_class
\* is 1, 'High' with a red badge exactly when predicted_class is 1 and the
\* probability is present and at least the threshold, and otherwise 'Low'
\* with a green badge; both paths agree.
C27_LabelFlagAndBadge ==
    rendered # None =>
        /\ Len(rendered[1].table) = Len(rendered[1].results)
        /\ \A k \in 1..Len(rendered[1].results) :
               /\ LabelAndFlagFollowPrediction(k)
               /\ rendered[1].table[k].risk_flag = "Low" =>
                      /\ k \in DOMAIN rendered[1].badges
                      /\ rendered[1].badges[k].color = "green"
        /\ PathsAgree

\* C27 amended: the same, where a 'Low' item has a green badge when its
\* probability is present and no badge when it is absent.
C27_LabelFlagAndBadgeWhenProbabilityPresent ==
    rendered # None =>
        /\ Len(rendered[1].table) = Len(rendered[1].results)
        /\ \A k \in 1..Len(rendered[1].results) :
               /\ LabelAndFlagFollowPrediction(k)
               /\ rendered[1].table[k].risk_flag = "Low" =>
                      IF rendered[1].results[k].probability # None
                      THEN /\ k \in DOMAIN rendered[1].badges
                           /\ rendered[1].badges[k].color = "green"
                      ELSE k \notin DOMAIN rendered[1].badges
        /\ PathsAgree

\* The form path has rendered a response with a probability equal to the
\* threshold (High) and one below it (Low).
C27_Witness ==
    /\ rendered # None
    /\ rendered[1].path = "form"
    /\ \E a, b \in 1..Len(rendered[1].results) :
           /\ rendered[1].results[a].probability = Some(rendered[1].risk_threshold)
           /\ rendered[1].table[a].risk_flag = "High"
           /\ rendered[1].table[b].risk_flag = "Low"
           /\ rendered[1].badges[b].color = "green"

(***************************************************************************)
(* send_to_bigQuery (src/project/pdpipeline/bigqueryscript.py, 14-33)      *)
(***************************************************************************)
\* bigqueryscript.py:21
bq_batch_size == 1000

\* The numbers of rows handed to send_to_bigQuery; row k is the number k.
BqRowCounts == {0, 1, 2, 999, 1000, 1001, 1999, 2000, 2001, 3000, 3001}

\* How client.insert_rows_json ends: an empty list, a list of errors, or an
\* exception, which send_to_bigQuery does not catch.
InsertOutcomes == {"ok", "errors", "raises"}

BqInit ==
    \E total \in BqRowCounts :
        bq = [pc |-> "loop", data_rows |-> [k \in 1..total |-> k], start |-> 0,
              uploads |-> <<>>, log |-> <<>>]

\* The loop body that leaves the loop after a batch with errors.
InsertBatchStopOnErrors(outcome) ==
    /\ bq.pc = "loop"
    /\ bq.start < Len(bq.data_rows)
    /\ bq' =
          IF outcome = "raises" THEN [bq EXCEPT !.pc = "raised"]
          ELSE [bq EXCEPT
                   !.pc = IF outcome = "errors" THEN "done" ELSE "loop",
                   !.start = bq.start + bq_batch_size,
                   !.uploads = Append(bq.uploads,
                       [batch |-> Slice(bq.data_rows, bq.start, bq.start + bq_batch_size),
                        errors |-> outcome = "errors"]),
                   !.log = IF outcome = "errors" THEN Append(bq.log, "error") ELSE bq.log]
    /\ UNCHANGED <<batchVars, apiVars, uiVars, dates, ex, proc, feat, rendered>>

\* One iteration of the loop: the slice is inserted and reported errors are
\* logged.
InsertBatch(outcome) ==
    /\ bq.pc = "loop"
    /\ bq.start < Len(bq.data_rows)
    /\ bq' =
          IF outcome = "raises" THEN [bq EXCEPT !.pc = "raised"]
          ELSE [bq EXCEPT
                   !.start = bq.start + bq_batch_size,
                   !.uploads = Append(bq.uploads,
                       [batch |-> Slice(bq.data_rows, bq.start, bq.start + bq_batch_size),
                        errors |-> outcome = "errors"]),
                   !.log = IF outcome = "errors" THEN Append(bq.log, "error") ELSE bq.log]
    /\ UNCHANGED <<batchVars, apiVars, uiVars, dates, ex, proc, feat, rendered>>

\* The range is exhausted: the total is logged and the function returns.
BqReturn ==
    /\ bq.pc = "loop"
    /\ bq.start >= Len(bq.data_rows)
    /\ bq' = [bq EXCEPT !.pc = "done", !.log = Append(bq.log, "info")]
    /\ UNCHANGED <<batchVars, apiVars, uiVars, dates, ex, proc, feat, rendered>>

BqNext ==
    \/ \E outcome \in InsertOutcomes : InsertBatch(outcome)
    \/ BqReturn

InitBq ==
    BqInit /\ DatesIdle /\ ExtractIdle /\ ProcIdle /\ FeatIdle /\ RenderIdle
    /\ BatchIdle /\ ApiIdle /\ UiIdle

SpecBq == InitBq /\ [][BqNext]_vars

\* The rows uploaded so far, in the order of the uploads.
Uploaded == ExtendAll([k \in 1..Len(bq.uploads) |-> bq.uploads[k].batch])

\* C28: send_to_bigQuery uploads the rows in consecutive batches of at most
\* 1000 that partition the input in order; a batch whose insert reports
\* errors is logged, and every remaining batch is still uploaded.
C28_BatchesPartitionRowsDespiteErrors ==
    bq.pc # "idle" =>
        /\ \A k \in 1..Len(bq.uploads) :
               /\ Len(bq.uploads[k].batch) \in 1..1000
               /\ k < Len(bq.uploads) => Len(bq.uploads[k].batch) = 1000
        /\ Uploaded = SubSeq(bq.data_rows, 1, Len(Uploaded))
        /\ Cardinality({k \in 1..Len(bq.uploads) : bq.uploads[k].errors})
               = Cardinality({k \in 1..Len(bq.log) : bq.log[k] = "error"})
        /\ bq.pc = "done" => Uploaded = bq.data_rows

\* The first of three or more batches reported errors, and the upload went
\* on to a last, shorter batch.
C28_Witness ==
    /\ bq.pc = "done"
    /\ Len(bq.uploads) >= 3
    /\ bq.uploads[1].errors
    /\ Len(bq.uploads[Len(bq.uploads)].batch) < 1000
    /\ Uploaded = bq.data_rows

(***************************************************************************)
(* Claims about the statelessness of /predict                              *)
(***************************************************************************)
\* Every answer is the one the handler gives for the request's payload and
\* the model file of that moment, and equal payloads with equal model files
\* get equal answers, whatever was asked before.
AnswersDependOnPayloadOnly ==
    /\ \A k \in 1..Len(apiLog) :
           apiLog[k].endpoint = "predict" =>
               apiLog[k].response
                   = PredictEndpoint(apiLog[k].features, apiLog[k].model).response
    /\ \A a, b \in 1..Len(apiLog) :
           (/\ apiLog[a].endpoint = "predict"
            /\ apiLog[b].endpoint = "predict"
            /\ apiLog[a].features = apiLog[b].features
            /\ apiLog[a].model = apiLog[b].model)
               => apiLog[a].response = apiLog[b].response

\* A request to /predict is answered in this step.
PredictAnswered ==
    /\ Len(apiLog') = Len(apiLog) + 1
    /\ apiLog'[Len(apiLog')].endpoint = "predict"

====
